---- MODULE Spec2Model ----
(***************************************************************************)
(* A model of the marshalling visitor (model_visitor.go) and of the        *)
(* tri-state nullable values (nullable.go) of hashicorp/jsonapi.           *)
(*                                                                         *)
(* Go values are modelled as records:                                      *)
(*   - a pointer is [nil |-> TRUE] or [nil |-> FALSE, ref |-> address] (to *)
(*     a struct on the heap) or [nil |-> FALSE, v |-> value] (to a scalar);*)
(*   - a slice is [nil |-> BOOLEAN, items |-> sequence];                   *)
(*   - a Go map is [nil |-> BOOLEAN, m |-> function];                      *)
(*   - a struct value is [name, fields], each field carrying its jsonapi   *)
(*     tag, its reflect kind and its value.                                *)
(* The recursion of Visit is an explicit call stack of frames.             *)
(***************************************************************************)
EXTENDS Integers, Sequences, FiniteSets, TLC

VARIABLES
  Included,   \* modelVisitor.Included: key "type,id" -> *Node
  Sideload,   \* modelVisitor.Sideload
  rootModel,  \* modelVisitor.rootModel
  stack,      \* the active calls of Visit, outermost first
  result,     \* what the last top-level Visit returned
  root,       \* the application's model object, at heap address "root"
  visits,     \* the top-level Visits this visitor has run
  ops,        \* the operations called on the model's nullable fields
  got,        \* the last operation on a nullable field and what it returned
  legacy      \* for each nullable field, a Nullable[T] (the older type) that
              \* has been given the operations the field has been given

vars == <<Included, Sideload, rootModel, stack, result, root, visits, ops, got,
          legacy>>

(***************************************************************************)
(* Bounds of the model.                                                    *)
(***************************************************************************)
MaxLen == 2     \* the longest list of a to-many relation
MaxVisits == 2  \* the top-level Visits one visitor runs (a list's entries)
MaxOps == 2     \* the operations called on the nullable fields of one model
MaxDepth == 5   \* the deepest nesting of Visit followed

(***************************************************************************)
(* Sentinel errors and annotations of the package.                         *)
(***************************************************************************)
ErrBadJSONAPIStructTag == "ErrBadJSONAPIStructTag"
ErrBadJSONAPIID == "ErrBadJSONAPIID"
ErrUnexpectedNil == "ErrUnexpectedNil"
ErrUnexpectedType == "ErrUnexpectedType"
ErrInvalidLinks == "invalid links"

annotationPrimary == "primary"
annotationClientID == "client-id"
annotationAttribute == "attr"
annotationRelation == "relation"
annotationPolyRelation == "polyrelation"
annotationLinks == "links"
annotationOmitEmpty == "omitempty"
annotationISO8601 == "iso8601"
annotationRFC3339 == "rfc3339"

(***************************************************************************)
(* Go values.                                                              *)
(***************************************************************************)
NilPtr == [nil |-> TRUE]
PtrTo(a) == [nil |-> FALSE, ref |-> a]
PtrVal(x) == [nil |-> FALSE, v |-> x]
NilSlice == [nil |-> TRUE, items |-> <<>>]
SliceOf(s) == [nil |-> FALSE, items |-> s]
NilMap == [nil |-> TRUE, m |-> <<>>]
MakeMap == [nil |-> FALSE, m |-> <<>>]

MapHas(mp, k) == k \in DOMAIN mp.m
MapLen(mp) == Cardinality(DOMAIN mp.m)
\* m[k] = x.  (MapPut_keepFirst: the same for a key the map has not, and
\* nothing for a key it has.)
MapPut_keepFirst(mp, k, x) ==
  [nil |-> FALSE,
   m |-> [j \in (DOMAIN mp.m) \cup {k} |-> IF j \in DOMAIN mp.m THEN mp.m[j] ELSE x]]

MapPut(mp, k, x) ==
  [nil |-> FALSE,
   m |-> [j \in (DOMAIN mp.m) \cup {k} |-> IF j = k THEN x ELSE mp.m[j]]]

\* A field of a struct value: its jsonapi tag, the kind (and element kind)
\* reflect reports, and the value.
Fld(tag, kind, elem, v) == [tag |-> tag, kind |-> kind, elem |-> elem, v |-> v]

SignedKinds == {"int", "int8", "int16", "int32", "int64"}
UnsignedKinds == {"uint", "uint8", "uint16", "uint32", "uint64"}

(***************************************************************************)
(* strconv.FormatInt / FormatUint in base 10.                              *)
(***************************************************************************)
Digit(d) ==
  CASE d = 0 -> "0" [] d = 1 -> "1" [] d = 2 -> "2" [] d = 3 -> "3"
    [] d = 4 -> "4" [] d = 5 -> "5" [] d = 6 -> "6" [] d = 7 -> "7"
    [] d = 8 -> "8" [] d = 9 -> "9"

RECURSIVE FormatUint(_)
FormatUint(n) ==
  IF n < 10 THEN Digit(n) ELSE FormatUint(n \div 10) \o Digit(n % 10)

FormatInt(n) == IF n < 0 THEN "-" \o FormatUint(0 - n) ELSE FormatUint(n)

(***************************************************************************)
(* time.Time: the zero time (January 1, year 1, UTC) or a number of        *)
(* seconds since the Unix epoch.  Unix() is kept as decimal digits: the    *)
(* zero time's value does not fit 32 bits.                                 *)
(***************************************************************************)
ZeroTime == [zero |-> TRUE, unix |-> 0]
TimeAt(s) == [zero |-> FALSE, unix |-> s]
IsZero(t) == t.zero
Unix(t) == IF t.zero THEN "-62135596800" ELSE FormatInt(t.unix)

Pad2(n) == IF n < 10 THEN "0" \o Digit(n) ELSE FormatUint(n)
Pad4(n) ==
  IF n < 10 THEN "000" \o FormatUint(n)
  ELSE IF n < 100 THEN "00" \o FormatUint(n)
  ELSE IF n < 1000 THEN "0" \o FormatUint(n)
  ELSE FormatUint(n)

\* The civil date of a day count since the epoch (proleptic Gregorian).
CivilDate(days) ==
  LET z == days + 719468
      era == z \div 146097
      doe == z - era * 146097
      yoe == (doe - doe \div 1460 + doe \div 36524 - doe \div 146096) \div 365
      doy == doe - (365 * yoe + yoe \div 4 - yoe \div 100)
      mp == (5 * doy + 2) \div 153
      d == doy - (153 * mp + 2) \div 5 + 1
      mo == IF mp < 10 THEN mp + 3 ELSE mp - 9
      y == yoe + era * 400 + (IF mo <= 2 THEN 1 ELSE 0)
  IN [year |-> y, month |-> mo, day |-> d]

\* t.UTC().Format(layout) for the two layouts of the package; in UTC both
\* "2006-01-02T15:04:05Z" and time.RFC3339 print the zone as "Z".
FormatUTC(t) ==
  IF t.zero THEN "0001-01-01T00:00:00Z"
  ELSE LET date == CivilDate(t.unix \div 86400)
           sod == t.unix % 86400
       IN Pad4(date.year) \o "-" \o Pad2(date.month) \o "-" \o Pad2(date.day)
          \o "T" \o Pad2(sod \div 3600) \o ":" \o Pad2((sod % 3600) \div 60)
          \o ":" \o Pad2(sod % 60) \o "Z"

(***************************************************************************)
(* Node, the wire-level resource, and the relationship nodes.              *)
(***************************************************************************)
NilNode == [nil |-> TRUE]
NilLinks == [nil |-> TRUE]
NilMeta == [nil |-> TRUE]

\* new(Node)
NewNode ==
  [nil |-> FALSE, Type |-> "", ID |-> "", ClientID |-> "",
   Attributes |-> NilMap, Relationships |-> NilMap,
   Links |-> NilLinks, Meta |-> NilMeta]

RelationshipOneNode(data, links, meta) ==
  [many |-> FALSE, Data |-> data, Links |-> links, Meta |-> meta]
RelationshipManyNode(data, links, meta) ==
  [many |-> TRUE, Data |-> data, Links |-> links, Meta |-> meta]

\* What a visit of one field, or a whole Visit, comes to.
Ok(node) == [st |-> "ok", node |-> node, err |-> ""]
Fail(e) == [st |-> "err", node |-> NilNode, err |-> e]
Panic == [st |-> "panic", node |-> NilNode, err |-> ""]
NoResult == [st |-> "none", node |-> NilNode, err |-> ""]

(***************************************************************************)
(* The models of the package's tests (models_test.go, response_test.go).   *)
(***************************************************************************)
NoTag == ""
RelTag(role, name, omit) ==
  role \o "," \o name \o (IF omit THEN ",omitempty" ELSE "")

Obj(name, fields) == [name |-> name, fields |-> fields]

Comment(id, body) ==
  Obj("Comment",
      << Fld("primary,comments", "int", "", id),
         Fld("client-id", "string", "", ""),
         Fld("attr,post_id", "int", "", 0),
         Fld("attr,body", "string", "", body),
         Fld("links,omitempty", "map", "Links", NilMap) >>)

Post(id, title, comments, latest) ==
  Obj("Post",
      << Fld(NoTag, "struct", "Blog", 0),
         Fld("primary,posts", "uint64", "", id),
         Fld("attr,blog_id", "int", "", 0),
         Fld("client-id", "string", "", ""),
         Fld("attr,title", "string", "", title),
         Fld("attr,body", "string", "", ""),
         Fld("relation,comments", "slice", "ptr", comments),
         Fld("relation,latest_comment", "ptr", "struct", latest),
         Fld("links,omitempty", "map", "Links", NilMap) >>)

Blog(id, clientID, posts, current) ==
  Obj("Blog",
      << Fld("primary,blogs", "int", "", id),
         Fld("client-id", "string", "", clientID),
         Fld("attr,title", "string", "", "Title 1"),
         Fld("relation,posts", "slice", "ptr", posts),
         Fld("relation,current_post", "ptr", "struct", current),
         Fld("attr,current_post_id", "int", "", 0),
         Fld("attr,created_at", "time", "", ZeroTime),
         Fld("attr,view_count", "int", "", 0),
         Fld("links,omitempty", "map", "Links", NilMap) >>)

BlogOptionalPosts(id, posts, current) ==
  Obj("BlogOptionalPosts",
      << Fld("primary,blogs", "int", "", id),
         Fld("attr,title", "string", "", ""),
         Fld("relation,posts,omitempty", "slice", "ptr", posts),
         Fld("relation,current_post,omitempty", "ptr", "struct", current) >>)

Book(id, title) ==
  Obj("Book",
      << Fld("primary,book", "string", "", id),
         Fld("attr,title,omitempty", "string", "", title),
         Fld("attr,author,omitempty", "string", "", "") >>)

Library(id, current, books) ==
  Obj("Library",
      << Fld("primary,library", "int", "", id),
         Fld("relation,book,omitempty", "ptr", "struct", current),
         Fld("relation,books,omitempty", "slice", "ptr", books) >>)

Image(id) ==
  Obj("Image",
      << Fld("primary,images", "string", "", id),
         Fld("attr,src", "string", "", "") >>)

Video(id) ==
  Obj("Video",
      << Fld("primary,videos", "string", "", id),
         Fld("attr,captions", "string", "", "") >>)

OneOfMedia(image, video) ==
  Obj("OneOfMedia",
      << Fld(NoTag, "ptr", "struct", image),
         Fld(NoTag, "ptr", "struct", video),
         Fld(NoTag, "ptr", "string", NilPtr) >>)

\* BlogPostWithPoly; its relations are tagged omitempty in the tests, and
\* with omit false they are the same relations without it.
BlogPostWithPoly(id, hero, media, omit) ==
  Obj("BlogPostWithPoly",
      << Fld("primary,blogs", "string", "", id),
         Fld("attr,title", "string", "", "Hello, World"),
         Fld(RelTag("polyrelation", "hero-media", omit), "ptr", "struct", hero),
         Fld(RelTag("polyrelation", "media", omit), "slice", "ptr", media) >>)

\* A model with nothing but a primary field of the given kind (Foo,
\* badIDStruct and Car of the tests).
IDModel(kind, elem, v) ==
  Obj("Foo",
      << Fld("primary,foo", kind, elem, v),
         Fld("attr,title", "string", "", "Foo") >>)

\* TimestampModel: a time by value and through a pointer, in each encoding.
TimestampModel(dv, dp, iv, ip, rv, rp) ==
  Obj("TimestampModel",
      << Fld("primary,timestamps", "int", "", 5),
         Fld("attr,defaultv", "time", "", dv),
         Fld("attr,defaultp", "ptr", "time", dp),
         Fld("attr,iso8601v,iso8601", "time", "", iv),
         Fld("attr,iso8601p,iso8601", "ptr", "time", ip),
         Fld("attr,rfc3339v,rfc3339", "time", "", rv),
         Fld("attr,rfc3339p,rfc3339", "ptr", "time", rp) >>)

\* The struct values that are attributes of a Company.
Employee(firstname, surname, age) ==
  [Firstname |-> firstname, Surname |-> surname, Age |-> age, HiredAt |-> NilPtr]
Team(name) == [Name |-> name, Leader |-> NilPtr, Members |-> NilSlice]
People(name, age) == [Name |-> name, Age |-> age]

Company(name, boss, manager, teams, people, foundedAt) ==
  Obj("Company",
      << Fld("primary,companies", "string", "", "5"),
         Fld("attr,name", "string", "", name),
         Fld("attr,boss", "struct", "Employee", boss),
         Fld("attr,manager", "ptr", "Employee", manager),
         Fld("attr,teams", "slice", "Team", teams),
         Fld("attr,people", "slice", "ptr", people),
         Fld("attr,founded-at,iso8601", "time", "", foundedAt) >>)

CompanyOmitEmpty(name, boss, manager, teams, people, foundedAt) ==
  Obj("CompanyOmitEmpty",
      << Fld("primary,companies", "string", "", "5"),
         Fld("attr,name,omitempty", "string", "", name),
         Fld("attr,boss,omitempty", "struct", "Employee", boss),
         Fld("attr,manager,omitempty", "ptr", "Employee", manager),
         Fld("attr,teams,omitempty", "slice", "Team", teams),
         Fld("attr,people,omitempty", "slice", "ptr", people),
         Fld("attr,founded-at,iso8601,omitempty", "time", "", foundedAt) >>)

\* Author: a list of references, a reference and a map, each omitempty.
Author(phones, address, tags) ==
  Obj("Author",
      << Fld("primary,authors", "int", "", 999),
         Fld("attr,title", "string", "", "Igor"),
         Fld("attr,phones,omitempty", "slice", "ptr", phones),
         Fld("attr,address,omitempty", "ptr", "Address", address),
         Fld("attr,tags,omitempty", "map", "int", tags) >>)

\* BadModel, whose field has a malformed tag ("primary", with no type name);
\* here the tag is on a field declared between two relations.
BadModel(tag) ==
  Obj("BadModel",
      << Fld("primary,badmodels", "int", "", 1),
         Fld("relation,before", "ptr", "struct", PtrTo("c1")),
         Fld(tag, "string", "", "x"),
         Fld("relation,after", "ptr", "struct", PtrTo("c2")) >>)

\* A model that refers to objects of its own type: one, and a list.
Person(id, friend, friends) ==
  Obj("Person",
      << Fld("primary,persons", "int", "", id),
         Fld("attr,name", "string", "", "n"),
         Fld("relation,friend", "ptr", "struct", friend),
         Fld("relation,friends", "slice", "ptr", friends) >>)

\* A model without capabilities that refers to a Blog.
Site(id, blog) ==
  Obj("Site",
      << Fld("primary,sites", "int", "", id),
         Fld("relation,blog", "ptr", "struct", blog) >>)

\* withDeprecatedRelation: a polymorphic relation and a relation of one
\* name; here also with two attributes of one name, the second omitempty.
withDeprecatedRelation(title, second, media, image, omit) ==
  Obj("withDeprecatedRelation",
      << Fld("primary,blogs", "string", "", "3"),
         Fld("attr,title", "string", "", title),
         Fld("attr,title,omitempty", "string", "", second),
         Fld("polyrelation,media", "ptr", "struct", media),
         Fld(RelTag("relation", "media", omit), "ptr", "struct", image) >>)

WithNullableAttrs(id, time, bool, comment) ==
  Obj("WithNullableAttrs",
      << Fld("primary,with-nullables", "int", "", id),
         Fld("attr,name", "string", "", ""),
         Fld("attr,int_time,omitempty", "NullableAttr", "time", time),
         Fld("attr,rfc3339_time,rfc3339,omitempty",
             "NullableAttr", "time", time),
         Fld("attr,iso8601_time,iso8601,omitempty",
             "NullableAttr", "time", time),
         Fld("attr,bool,omitempty", "NullableAttr", "bool", bool),
         Fld("relation,nullable_comment,omitempty",
             "NullableRelationship", "ptr", comment) >>)

(***************************************************************************)
(* The heap: the related objects the models point to, by address, and the  *)
(* application's model at address "root".                                  *)
(***************************************************************************)
Pool ==
  [c1 |-> Comment(1, "c1"),
   c2 |-> Comment(2, "c2"),
   p1 |-> Post(1, "a", SliceOf(<<PtrTo("c1")>>), PtrTo("c1")),
   p1b |-> Post(1, "b", NilSlice, NilPtr),
   p2 |-> Post(2, "c", SliceOf(<<PtrTo("c2")>>), NilPtr),
   bk0 |-> Book("", "A Good Book"),
   bk1 |-> Book("123", "Don't come back"),
   bk2 |-> Book("1,2", "An id with the separator in it"),
   img |-> Image("2"),
   img0 |-> Image(""),
   vid |-> Video("3"),
   mI |-> OneOfMedia(PtrTo("img0"), NilPtr),
   mV |-> OneOfMedia(NilPtr, PtrTo("vid")),
   mIV |-> OneOfMedia(PtrTo("img"), PtrTo("vid")),
   mNone |-> OneOfMedia(NilPtr, NilPtr),
   pa |-> Person(1, PtrTo("pb"), NilSlice),
   pb |-> Person(2, NilPtr, SliceOf(<<PtrTo("pc"), PtrTo("pa")>>)),
   pc |-> Person(4, NilPtr, NilSlice),
   b7 |-> Blog(7, "", SliceOf(<<PtrTo("p2")>>), PtrTo("p1b"))]

Deref(ptr) == IF ptr.ref = "root" THEN root ELSE Pool[ptr.ref]

(***************************************************************************)
(* The capabilities of the test models.  Blog has all four with pointer    *)
(* receivers; Post embeds a Blog value, so *Post has them too, through its *)
(* embedded (zero) Blog.                                                   *)
(***************************************************************************)
LinkString(x) == [k |-> "string", Href |-> x, Meta |-> NilMeta]
Link(href, meta) == [k |-> "Link", Href |-> href, Meta |-> meta]
MakeLinks(m) == [nil |-> FALSE, m |-> m]
MakeMeta(m) == [nil |-> FALSE, m |-> m]

\* The Blog the capability methods read: the model itself, or the one a
\* Post embeds.
BlogOf(obj) ==
  IF obj.name = "Blog"
  THEN [ID |-> obj.fields[1].v, nPosts |-> Len(obj.fields[4].v.items)]
  ELSE [ID |-> 0, nPosts |-> 0]

Linkable(obj) == obj.name \in {"Blog", "Post"}
Metable(obj) == obj.name \in {"Blog", "Post"}
RelationshipLinkable(obj) == obj.name \in {"Blog", "Post"}
RelationshipMetable(obj) == obj.name \in {"Blog", "Post"}

JSONAPILinks(obj) ==
  LET b == BlogOf(obj)
      base == "https://example.com/api/blogs/" \o FormatInt(b.ID)
  IN MakeLinks("self" :> LinkString(base)
               @@ "comments" :> Link(base \o "/comments", MakeMeta("counts" :> [likes |-> 4, comments |-> 20])))

JSONAPIRelationshipLinks(obj, relation) ==
  LET b == BlogOf(obj)
      base == "https://example.com/api/blogs/" \o FormatInt(b.ID)
  IN IF relation = "posts"
     THEN MakeLinks("related" :> Link(base \o "/posts", MakeMeta("count" :> b.nPosts)))
     ELSE IF relation = "current_post"
     THEN MakeLinks("self" :> LinkString("https://example.com/api/posts/3")
                    @@ "related" :> Link(base \o "/current_post", NilMeta))
     ELSE NilLinks

JSONAPIMeta(obj) == MakeMeta("detail" :> "extra details regarding the blog")

JSONAPIRelationshipMeta(obj, relation) ==
  IF relation = "posts"
  THEN MakeMeta("this" :> [can |-> [go |-> <<"as", "deep", [as |-> "required"]>>]])
  ELSE IF relation = "current_post"
  THEN MakeMeta("detail" :> "extra current_post detail")
  ELSE NilMeta

\* Links.validate: every entry is a plain string or a Link.
validate(links) ==
  IF links.nil THEN TRUE
  ELSE \A k \in DOMAIN links.m : links.m[k].k \in {"string", "Link"}

(***************************************************************************)
(* modelFieldCursor.                                                       *)
(***************************************************************************)
RECURSIVE Index(_, _, _)
Index(s, sep, i) ==
  IF i > Len(s) THEN 0
  ELSE IF SubSeq(s, i, i) = sep THEN i
  ELSE Index(s, sep, i + 1)

\* strings.Split(s, sep) for a one-character separator.
RECURSIVE Split(_, _)
Split(s, sep) ==
  LET i == Index(s, sep, 1)
  IN IF i = 0 THEN <<s>>
     ELSE <<SubSeq(s, 1, i - 1)>> \o Split(SubSeq(s, i + 1, Len(s)), sep)

annotationSeparator == ","

\* modelFieldCursor.Next: the cursor on field i of the model, with the
\* field's tag split at the separator.
CursorNext(obj, i) ==
  LET f == obj.fields[i]
  IN [fieldValue |-> f.v, kind |-> f.kind, elem |-> f.elem,
      currentTag |-> IF f.tag # "" THEN Split(f.tag, annotationSeparator)
                     ELSE <<>>]

HasTag(c) == Len(c.currentTag) # 0
TagType(c) == IF ~HasTag(c) THEN "" ELSE c.currentTag[1]

\* ValidTag: "" (nil) or ErrBadJSONAPIStructTag.
ValidTag(c) ==
  IF ~HasTag(c) THEN ErrBadJSONAPIStructTag
  ELSE IF \/ (TagType(c) = annotationClientID /\ Len(c.currentTag) # 1)
          \/ (TagType(c) # annotationClientID /\ Len(c.currentTag) < 2)
  THEN ErrBadJSONAPIStructTag
  ELSE ""

FieldTypePrimary(c) == TagType(c) = annotationPrimary
FieldTypeClientID(c) == TagType(c) = annotationClientID
FieldTypeAttribute(c) == TagType(c) = annotationAttribute
FieldTypeRelation(c) == TagType(c) = annotationRelation
FieldTypePolyRelation(c) == TagType(c) = annotationPolyRelation
FieldTypeLinks(c) == TagType(c) = annotationLinks

(***************************************************************************)
(* The visits of one field.                                                *)
(***************************************************************************)
\* visitFieldTypePrimary leaving the id of a zero integer unset.
visitFieldTypePrimary_zeroOmitted(node, c) ==
  LET isPtr == c.kind = "ptr"
      kind == IF isPtr THEN c.elem ELSE c.kind
  IN IF isPtr /\ c.fieldValue.nil
     THEN Panic
     ELSE LET fvi == IF isPtr THEN c.fieldValue.v ELSE c.fieldValue
          IN IF kind = "string"
             THEN Ok([node EXCEPT !.ID = fvi, !.Type = c.currentTag[2]])
             ELSE IF kind \in SignedKinds \cup UnsignedKinds
             THEN Ok([node EXCEPT !.ID = IF fvi = 0 THEN "" ELSE FormatInt(fvi),
                                  !.Type = c.currentTag[2]])
             ELSE Fail(ErrBadJSONAPIID)

visitFieldTypePrimary(node, c) ==
  LET isPtr == c.kind = "ptr"
      kind == IF isPtr THEN c.elem ELSE c.kind
  IN IF isPtr /\ c.fieldValue.nil
     THEN Panic  \* Interface() of the zero Value reflect.Indirect returns
     ELSE LET fvi == IF isPtr THEN c.fieldValue.v ELSE c.fieldValue
          IN IF kind = "string"
             THEN Ok([node EXCEPT !.ID = fvi, !.Type = c.currentTag[2]])
             ELSE IF kind \in SignedKinds
             THEN Ok([node EXCEPT !.ID = FormatInt(fvi), !.Type = c.currentTag[2]])
             ELSE IF kind \in UnsignedKinds
             THEN Ok([node EXCEPT !.ID = FormatUint(fvi), !.Type = c.currentTag[2]])
             ELSE Fail(ErrBadJSONAPIID)

visitFieldTypeClientID(node, c) ==
  LET clientID == c.fieldValue
  IN IF clientID # "" THEN Ok([node EXCEPT !.ClientID = clientID]) ELSE Ok(node)

\* A value held in an interface{}: its kind and the value.
Iface(kind, elem, v) == [k |-> kind, e |-> elem, v |-> v]
NilIface == Iface("nil", "", "")

\* reflect.DeepEqual(value, reflect.Zero(type)) by kind.  A non-nil empty
\* slice or map is not deeply equal to the nil one.
DeepEqualZero(kind, v) ==
  CASE kind = "string" -> v = ""
    [] kind = "bool" -> v = FALSE
    [] kind \in SignedKinds \cup UnsignedKinds -> v = 0
    [] kind \in {"ptr", "slice", "map", "NullableAttr", "NullableRelationship"} -> v.nil
    [] kind = "struct" -> v = Employee("", "", 0)
    [] OTHER -> FALSE

TagArgs(c) == SubSeq(c.currentTag, 3, Len(c.currentTag))
HasArg(c, a) == \E i \in 1..Len(TagArgs(c)) : TagArgs(c)[i] = a

\* The three encodings of a time.
encodeTime(t, iso8601, rfc3339) ==
  IF iso8601 THEN Iface("string", "", FormatUTC(t))
  ELSE IF rfc3339 THEN Iface("string", "", FormatUTC(t))
  ELSE Iface("int64", "", Unix(t))

\* visitFieldTypeAttribute with a time value treated as a time pointer is:
\* the zero time is left out only under omitempty.
visitFieldTypeAttribute_zeroTimeWritten(node, c) ==
  LET omitEmpty == HasArg(c, annotationOmitEmpty)
      iso8601 == HasArg(c, annotationISO8601)
      rfc3339 == HasArg(c, annotationRFC3339)
      name == c.currentTag[2]
      attrs == IF node.Attributes.nil THEN MakeMap ELSE node.Attributes
      made == [node EXCEPT !.Attributes = attrs]
      put(x) == Ok([node EXCEPT !.Attributes = MapPut(attrs, name, x)])
  IN IF c.kind = "time"
     THEN IF IsZero(c.fieldValue) /\ omitEmpty THEN Ok(made)
          ELSE put(encodeTime(c.fieldValue, iso8601, rfc3339))
     ELSE IF c.kind = "ptr" /\ c.elem = "time"
     THEN IF c.fieldValue.nil
          THEN IF omitEmpty THEN Ok(made) ELSE put(NilIface)
          ELSE IF IsZero(c.fieldValue.v) /\ omitEmpty THEN Ok(made)
          ELSE put(encodeTime(c.fieldValue.v, iso8601, rfc3339))
     ELSE IF omitEmpty /\ DeepEqualZero(c.kind, c.fieldValue) THEN Ok(made)
     ELSE put(Iface(c.kind, c.elem, c.fieldValue))

visitFieldTypeAttribute(node, c) ==
  LET omitEmpty == HasArg(c, annotationOmitEmpty)
      iso8601 == HasArg(c, annotationISO8601)
      rfc3339 == HasArg(c, annotationRFC3339)
      name == c.currentTag[2]
      attrs == IF node.Attributes.nil THEN MakeMap ELSE node.Attributes
      made == [node EXCEPT !.Attributes = attrs]
      put(x) == Ok([node EXCEPT !.Attributes = MapPut(attrs, name, x)])
  IN IF c.kind = "time"
     THEN IF IsZero(c.fieldValue) THEN Ok(made)
          ELSE put(encodeTime(c.fieldValue, iso8601, rfc3339))
     ELSE IF c.kind = "ptr" /\ c.elem = "time"
     THEN IF c.fieldValue.nil
          THEN IF omitEmpty THEN Ok(made) ELSE put(NilIface)
          ELSE IF IsZero(c.fieldValue.v) /\ omitEmpty THEN Ok(made)
          ELSE put(encodeTime(c.fieldValue.v, iso8601, rfc3339))
     ELSE IF omitEmpty /\ DeepEqualZero(c.kind, c.fieldValue) THEN Ok(made)
     ELSE put(Iface(c.kind, c.elem, c.fieldValue))

\* jsonapiTypeOfModel: the type name of the model's primary field, "" when
\* it has none (an error).
jsonapiTypeOfModel(obj) ==
  LET prim == {i \in 1..Len(obj.fields) :
                 LET t == CursorNext(obj, i).currentTag
                 IN Len(t) >= 2 /\ t[1] = annotationPrimary}
  IN IF prim = {} THEN ""
     ELSE CursorNext(obj, CHOOSE i \in prim : \A j \in prim : i <= j).currentTag[2]

\* selectChoiceTypeStructField: the first non-nil pointer field of the choice
\* struct whose struct type has a jsonapi type.
\* selectChoiceTypeStructField with its loop not stopped at the first match:
\* the last populated field is returned.
selectChoiceTypeStructField_last(structValue) ==
  LET ok == {i \in 1..Len(structValue.fields) :
               LET f == structValue.fields[i]
               IN /\ f.kind = "ptr"
                  /\ ~f.v.nil
                  /\ f.elem = "struct"
                  /\ jsonapiTypeOfModel(Deref(f.v)) # ""}
  IN IF ok = {} THEN [found |-> FALSE, v |-> NilPtr]
     ELSE [found |-> TRUE,
           v |-> structValue.fields[CHOOSE i \in ok : \A j \in ok : i >= j].v]

selectChoiceTypeStructField(structValue) ==
  LET ok == {i \in 1..Len(structValue.fields) :
               LET f == structValue.fields[i]
               IN /\ f.kind = "ptr"
                  /\ ~f.v.nil
                  /\ f.elem = "struct"
                  /\ jsonapiTypeOfModel(Deref(f.v)) # ""}
  IN IF ok = {} THEN [found |-> FALSE, v |-> NilPtr]
     ELSE [found |-> TRUE,
           v |-> structValue.fields[CHOOSE i \in ok : \A j \in ok : i <= j].v]

\* toShallowNode handing back the node it was given.
toShallowNode_full(node) == node

\* toShallowNode that keeps the type only.
toShallowNode_typeOnly(node) == [NewNode EXCEPT !.Type = node.Type]

toShallowNode(node) ==
  IF node.ID = ""
  THEN [NewNode EXCEPT !.Type = node.Type, !.Attributes = node.Attributes]
  ELSE [NewNode EXCEPT !.Type = node.Type, !.ID = node.ID]

\* The key of a node in the Included Set, line 316.  (includedKey_idOnly:
\* the key without the type.)
includedKey_idOnly(n) == n.ID

includedKey(n) == n.Type \o "," \o n.ID

\* appendIncluded for one node: the first node under a key stays.
\* appendIncluded without the test for a node already under the key.
appendIncluded_overwrite(inc, n) ==
  [j \in (DOMAIN inc) \cup {includedKey(n)} |-> IF j = includedKey(n) THEN n ELSE inc[j]]

appendIncluded(inc, n) ==
  LET k == includedKey(n)
  IN IF k \in DOMAIN inc THEN inc
     ELSE [j \in (DOMAIN inc) \cup {k} |-> IF j = k THEN n ELSE inc[j]]

RECURSIVE appendIncludedAll(_, _)
appendIncludedAll(inc, nodes) ==
  IF nodes = <<>> THEN inc
  ELSE appendIncludedAll(appendIncluded(inc, Head(nodes)), Tail(nodes))

RECURSIVE toShallowNodes(_)
toShallowNodes(nodes) ==
  IF nodes = <<>> THEN <<>>
  ELSE <<toShallowNode(Head(nodes))>> \o toShallowNodes(Tail(nodes))

(***************************************************************************)
(* visitFieldTypeRelation.  Its calls of Visit suspend it: relationBegin   *)
(* is the part before them, which leaves the references to visit in the    *)
(* frame; relationEnd is the part after them.                              *)
(***************************************************************************)
NoRel == [active |-> FALSE]
Rel(isSlice, name, items, links, meta) ==
  [active |-> TRUE, isSlice |-> isSlice, name |-> name, items |-> items,
   nodes |-> <<>>, relLinks |-> links, relMeta |-> meta]

Done(o) == [st |-> o.st, node |-> o.node, err |-> o.err, rel |-> NoRel]
Call(node, rel) == [st |-> "visit", node |-> node, err |-> "", rel |-> rel]

Nilable(kind) ==
  kind \in {"ptr", "slice", "map", "NullableAttr", "NullableRelationship"}

\* The choice slice of a to-many polyrelation: the selected field of every
\* element, in order; "err" names the error that ends the loop early.
RECURSIVE snoopChoices(_, _)
snoopChoices(items, collection) ==
  IF items = <<>> THEN [err |-> "", collection |-> collection]
  ELSE LET itemValue == Head(items)
       IN IF itemValue.nil THEN [err |-> ErrUnexpectedNil, collection |-> <<>>]
          ELSE LET sel == selectChoiceTypeStructField(Deref(itemValue))
               IN snoopChoices(Tail(items),
                               IF sel.found THEN Append(collection, sel.v)
                               ELSE collection)

\* Lines 328-339: whether the relation is left out, as omitempty asks for an
\* empty slice and for a nil reference.  (omitsRelation_untagged: the same
\* without the test of the tag.)
omitsRelation_untagged(c) ==
  \/ c.kind = "slice" /\ Len(c.fieldValue.items) < 1
  \/ c.kind # "slice" /\ c.fieldValue.nil

omitsRelation(c) ==
  /\ Len(c.currentTag) > 2 /\ c.currentTag[3] = annotationOmitEmpty
  /\ \/ c.kind = "slice" /\ Len(c.fieldValue.items) < 1
     \/ c.kind # "slice" /\ c.fieldValue.nil

\* relationBegin that does not visit again an object whose Visit is under
\* way: the reference to it is left out of a list, and null as a to-one.
relationBegin_cutCycle(node, c, rootPtr) ==
  LET omitEmpty == Len(c.currentTag) > 2 /\ c.currentTag[3] = annotationOmitEmpty
      isSlice == c.kind = "slice"
      name == c.currentTag[2]
      poly == TagType(c) = annotationPolyRelation
      rels == IF node.Relationships.nil THEN MakeMap ELSE node.Relationships
      rootObj == Deref(rootPtr)
      relLinks == IF RelationshipLinkable(rootObj)
                  THEN JSONAPIRelationshipLinks(rootObj, name) ELSE NilLinks
      relMeta == IF RelationshipMetable(rootObj)
                 THEN JSONAPIRelationshipMeta(rootObj, name) ELSE NilMeta
      made == [node EXCEPT !.Relationships = rels]
      visiting(x) == \E k \in 1..Len(stack) : stack[k].next = x
      \* line 398 on, with fieldValue as the polyrelation block left it
      rest(fieldValue) ==
        IF isSlice
        THEN Call(made, Rel(TRUE, name,
                            SelectSeq(fieldValue.items, LAMBDA x : ~visiting(x)),
                            relLinks, relMeta))
        ELSE IF ~Nilable(c.kind) THEN Done(Panic)
        ELSE IF fieldValue.nil \/ visiting(fieldValue)
        THEN Done(Ok([node EXCEPT !.Relationships =
                        MapPut(rels, name, RelationshipOneNode(NilNode, NilLinks, NilMeta))]))
        ELSE Call(made, Rel(FALSE, name, <<fieldValue>>, relLinks, relMeta))
  IN IF omitEmpty /\ ~isSlice /\ ~Nilable(c.kind) THEN Done(Panic)
     ELSE IF omitsRelation(c) THEN Done(Ok(node))
     ELSE IF ~poly THEN rest(c.fieldValue)
     ELSE IF ~isSlice
     THEN IF c.kind # "ptr" THEN Done(Fail(ErrUnexpectedType))
          ELSE IF c.fieldValue.nil THEN Done(Ok(node))
          ELSE LET sel == selectChoiceTypeStructField(Deref(c.fieldValue))
               IN rest(IF sel.found THEN sel.v ELSE c.fieldValue)
     ELSE IF c.elem # "ptr" /\ c.fieldValue.items # <<>>
     THEN Done(Fail(ErrUnexpectedType))
     ELSE LET snooped == snoopChoices(c.fieldValue.items, <<>>)
          IN IF snooped.err # "" THEN Done(Fail(snooped.err))
             ELSE rest(SliceOf(snooped.collection))

\* relationBegin that asks the object that owns the field, not the root
\* model, for the links and meta of the relation.
relationBegin_ownerCapabilities(node, c, rootPtr) ==
  LET omitEmpty == Len(c.currentTag) > 2 /\ c.currentTag[3] = annotationOmitEmpty
      isSlice == c.kind = "slice"
      name == c.currentTag[2]
      poly == TagType(c) = annotationPolyRelation
      rels == IF node.Relationships.nil THEN MakeMap ELSE node.Relationships
      rootObj == Deref(stack[Len(stack)].next)
      relLinks == IF RelationshipLinkable(rootObj)
                  THEN JSONAPIRelationshipLinks(rootObj, name) ELSE NilLinks
      relMeta == IF RelationshipMetable(rootObj)
                 THEN JSONAPIRelationshipMeta(rootObj, name) ELSE NilMeta
      made == [node EXCEPT !.Relationships = rels]
      \* line 398 on, with fieldValue as the polyrelation block left it
      rest(fieldValue) ==
        IF isSlice
        THEN Call(made, Rel(TRUE, name, fieldValue.items, relLinks, relMeta))
        ELSE IF ~Nilable(c.kind) THEN Done(Panic)
        ELSE IF fieldValue.nil
        THEN Done(Ok([node EXCEPT !.Relationships =
                        MapPut(rels, name, RelationshipOneNode(NilNode, NilLinks, NilMeta))]))
        ELSE Call(made, Rel(FALSE, name, <<fieldValue>>, relLinks, relMeta))
  IN IF omitEmpty /\ ~isSlice /\ ~Nilable(c.kind) THEN Done(Panic)
     ELSE IF omitsRelation(c) THEN Done(Ok(node))
     ELSE IF ~poly THEN rest(c.fieldValue)
     ELSE IF ~isSlice
     THEN IF c.kind # "ptr" THEN Done(Fail(ErrUnexpectedType))
          ELSE IF c.fieldValue.nil THEN Done(Ok(node))
          ELSE LET sel == selectChoiceTypeStructField(Deref(c.fieldValue))
               IN rest(IF sel.found THEN sel.v ELSE c.fieldValue)
     ELSE IF c.elem # "ptr" /\ c.fieldValue.items # <<>>
     THEN Done(Fail(ErrUnexpectedType))
     ELSE LET snooped == snoopChoices(c.fieldValue.items, <<>>)
          IN IF snooped.err # "" THEN Done(Fail(snooped.err))
             ELSE rest(SliceOf(snooped.collection))

relationBegin(node, c, rootPtr) ==
  LET omitEmpty == Len(c.currentTag) > 2 /\ c.currentTag[3] = annotationOmitEmpty
      isSlice == c.kind = "slice"
      name == c.currentTag[2]
      poly == TagType(c) = annotationPolyRelation
      rels == IF node.Relationships.nil THEN MakeMap ELSE node.Relationships
      rootObj == Deref(rootPtr)
      relLinks == IF RelationshipLinkable(rootObj)
                  THEN JSONAPIRelationshipLinks(rootObj, name) ELSE NilLinks
      relMeta == IF RelationshipMetable(rootObj)
                 THEN JSONAPIRelationshipMeta(rootObj, name) ELSE NilMeta
      made == [node EXCEPT !.Relationships = rels]
      \* line 398 on, with fieldValue as the polyrelation block left it
      rest(fieldValue) ==
        IF isSlice
        THEN Call(made, Rel(TRUE, name, fieldValue.items, relLinks, relMeta))
        ELSE IF ~Nilable(c.kind) THEN Done(Panic)
        ELSE IF fieldValue.nil
        THEN Done(Ok([node EXCEPT !.Relationships =
                        MapPut(rels, name, RelationshipOneNode(NilNode, NilLinks, NilMeta))]))
        ELSE Call(made, Rel(FALSE, name, <<fieldValue>>, relLinks, relMeta))
  IN IF omitEmpty /\ ~isSlice /\ ~Nilable(c.kind) THEN Done(Panic)
     ELSE IF omitsRelation(c) THEN Done(Ok(node))
     ELSE IF ~poly THEN rest(c.fieldValue)
     ELSE IF ~isSlice
     THEN IF c.kind # "ptr" THEN Done(Fail(ErrUnexpectedType))
          ELSE IF c.fieldValue.nil THEN Done(Ok(node))
          ELSE LET sel == selectChoiceTypeStructField(Deref(c.fieldValue))
               IN rest(IF sel.found THEN sel.v ELSE c.fieldValue)
     ELSE IF c.elem # "ptr" /\ c.fieldValue.items # <<>>
     THEN Done(Fail(ErrUnexpectedType))
     ELSE LET snooped == snoopChoices(c.fieldValue.items, <<>>)
          IN IF snooped.err # "" THEN Done(Fail(snooped.err))
             ELSE rest(SliceOf(snooped.collection))

\* visitModelNodeRelationships, lines 297-300: the error for the element of
\* a to-many relation, "" for none.  (validModel_wrongError: the same with
\* another of the package's errors.)
validModel_wrongError(model) == IF model.nil THEN ErrUnexpectedType ELSE ""

validModel(model) == IF model.nil THEN ErrUnexpectedNil ELSE ""

\* relationEnd that writes the relationship without the links and meta of
\* lines 402-410.
relationEnd_noLinks(node, rel, inc, sideload) ==
  LET put(x) == [node EXCEPT !.Relationships = MapPut(node.Relationships, rel.name, x)]
  IN IF rel.isSlice
     THEN [inc |-> IF sideload THEN appendIncludedAll(inc, rel.nodes) ELSE inc,
           node |-> put(RelationshipManyNode(
                          SliceOf(IF sideload THEN toShallowNodes(rel.nodes) ELSE rel.nodes),
                          NilLinks, NilMeta))]
     ELSE [inc |-> IF sideload THEN appendIncluded(inc, rel.nodes[1]) ELSE inc,
           node |-> put(RelationshipOneNode(
                          IF sideload THEN toShallowNode(rel.nodes[1]) ELSE rel.nodes[1],
                          NilLinks, NilMeta))]

\* relationEnd that takes no account of the mode: the related resources go
\* to the Included Set and the relationship refers to them.
relationEnd_alwaysSideload(node, rel, inc, sideload) ==
  LET put(x) == [node EXCEPT !.Relationships = MapPut(node.Relationships, rel.name, x)]
  IN IF rel.isSlice
     THEN [inc |-> appendIncludedAll(inc, rel.nodes),
           node |-> put(RelationshipManyNode(SliceOf(toShallowNodes(rel.nodes)),
                                             rel.relLinks, rel.relMeta))]
     ELSE [inc |-> appendIncluded(inc, rel.nodes[1]),
           node |-> put(RelationshipOneNode(toShallowNode(rel.nodes[1]),
                                            rel.relLinks, rel.relMeta))]

relationEnd(node, rel, inc, sideload) ==
  LET put(x) == [node EXCEPT !.Relationships = MapPut(node.Relationships, rel.name, x)]
  IN IF rel.isSlice
     THEN IF sideload
          THEN [inc |-> appendIncludedAll(inc, rel.nodes),
                node |-> put(RelationshipManyNode(SliceOf(toShallowNodes(rel.nodes)),
                                                  rel.relLinks, rel.relMeta))]
          ELSE [inc |-> inc,
                node |-> put(RelationshipManyNode(SliceOf(rel.nodes),
                                                  rel.relLinks, rel.relMeta))]
     ELSE IF sideload
          THEN [inc |-> appendIncluded(inc, rel.nodes[1]),
                node |-> put(RelationshipOneNode(toShallowNode(rel.nodes[1]),
                                                 rel.relLinks, rel.relMeta))]
          ELSE [inc |-> inc,
                node |-> put(RelationshipOneNode(rel.nodes[1],
                                                 rel.relLinks, rel.relMeta))]

\* visitField with no default case: a field of an unknown role is ignored.
visitField_ignoreUnknown(node, c, rootPtr) ==
  IF FieldTypePrimary(c) THEN Done(visitFieldTypePrimary(node, c))
  ELSE IF FieldTypeClientID(c) THEN Done(visitFieldTypeClientID(node, c))
  ELSE IF FieldTypeAttribute(c) THEN Done(visitFieldTypeAttribute(node, c))
  ELSE IF FieldTypeRelation(c) \/ FieldTypePolyRelation(c)
  THEN relationBegin(node, c, rootPtr)
  ELSE Done(Ok(node))

\* visitField: the visit of the field under the cursor.
visitField(node, c, rootPtr) ==
  IF FieldTypePrimary(c) THEN Done(visitFieldTypePrimary(node, c))
  ELSE IF FieldTypeClientID(c) THEN Done(visitFieldTypeClientID(node, c))
  ELSE IF FieldTypeAttribute(c) THEN Done(visitFieldTypeAttribute(node, c))
  ELSE IF FieldTypeRelation(c) \/ FieldTypePolyRelation(c)
  THEN relationBegin(node, c, rootPtr)
  ELSE IF FieldTypeLinks(c) THEN Done(Ok(node))
  ELSE Done(Fail(ErrBadJSONAPIStructTag))

(***************************************************************************)
(* NullableAttr[T] and NullableRelationship[T]: map[bool]T.                *)
(***************************************************************************)
\* var empty T
ZeroOf(elem) ==
  CASE elem = "bool" -> FALSE
    [] elem = "time" -> ZeroTime
    [] OTHER -> NilPtr

NoError == ""
GetResult(v, err) == [v |-> v, err |-> err]

\* Nullable[T], the older type of the two above.
NullableIsNull(t) == FALSE \in DOMAIN t.m
NullableIsSpecified(t) == MapLen(t) # 0
NullableSet(t, value) == [nil |-> FALSE, m |-> (TRUE :> value)]
NullableSetNull(t, elem) == [nil |-> FALSE, m |-> (FALSE :> ZeroOf(elem))]
NullableSetUnspecified(t) == [nil |-> FALSE, m |-> <<>>]
NullableGet(t, elem) ==
  IF NullableIsNull(t) THEN GetResult(ZeroOf(elem), "value is null")
  ELSE IF ~NullableIsSpecified(t)
  THEN GetResult(ZeroOf(elem), "value is not specified")
  ELSE GetResult(t.m[TRUE], NoError)

NullableAttrIsNull(t) == FALSE \in DOMAIN t.m
\* IsSpecified as the test for a value.
NullableAttrIsSpecified_hasValue(t) == TRUE \in DOMAIN t.m

NullableAttrIsSpecified(t) == MapLen(t) # 0
NullableAttrSet(t, value) == [nil |-> FALSE, m |-> (TRUE :> value)]
\* SetNull as Set of the zero value.
\* (NullableAttrSetNull_addKey: t[false] = empty, on the map there is.)
NullableAttrSetNull_addKey(t, elem) ==
  [nil |-> FALSE,
   m |-> [k \in (DOMAIN t.m) \cup {FALSE} |-> IF k THEN t.m[k] ELSE ZeroOf(elem)]]
NullableAttrSetNull_zeroValue(t, elem) == [nil |-> FALSE, m |-> (TRUE :> ZeroOf(elem))]
NullableAttrSetNull(t, elem) == [nil |-> FALSE, m |-> (FALSE :> ZeroOf(elem))]
NullableAttrSetUnspecified(t) == [nil |-> FALSE, m |-> <<>>]
\* Get without the test for null.
NullableAttrGet_noNullCheck(t, elem) ==
  IF ~NullableAttrIsSpecified(t)
  THEN GetResult(ZeroOf(elem), "value is not specified")
  ELSE GetResult(IF TRUE \in DOMAIN t.m THEN t.m[TRUE] ELSE ZeroOf(elem), NoError)

NullableAttrGet(t, elem) ==
  IF NullableAttrIsNull(t) THEN GetResult(ZeroOf(elem), "value is null")
  ELSE IF ~NullableAttrIsSpecified(t)
  THEN GetResult(ZeroOf(elem), "value is not specified")
  ELSE GetResult(t.m[TRUE], NoError)

NullableRelationshipIsNull(t) == FALSE \in DOMAIN t.m
NullableRelationshipIsSpecified(t) == MapLen(t) # 0
NullableRelationshipSet(t, value) == [nil |-> FALSE, m |-> (TRUE :> value)]
NullableRelationshipSetNull(t, elem) ==
  [nil |-> FALSE, m |-> (FALSE :> ZeroOf(elem))]
NullableRelationshipSetUnspecified(t) == [nil |-> FALSE, m |-> <<>>]
NullableRelationshipGet(t, elem) ==
  IF NullableRelationshipIsNull(t) THEN GetResult(ZeroOf(elem), "value is null")
  ELSE IF ~NullableRelationshipIsSpecified(t)
  THEN GetResult(ZeroOf(elem), "value is not specified")
  ELSE GetResult(t.m[TRUE], NoError)

\* The method of the field's own type.
IsNull(f) ==
  IF f.kind = "NullableAttr" THEN NullableAttrIsNull(f.v)
  ELSE NullableRelationshipIsNull(f.v)
IsSpecified(f) ==
  IF f.kind = "NullableAttr" THEN NullableAttrIsSpecified(f.v)
  ELSE NullableRelationshipIsSpecified(f.v)
SetOf(f, value) ==
  IF f.kind = "NullableAttr" THEN NullableAttrSet(f.v, value)
  ELSE NullableRelationshipSet(f.v, value)
SetNullOf(f) ==
  IF f.kind = "NullableAttr" THEN NullableAttrSetNull(f.v, f.elem)
  ELSE NullableRelationshipSetNull(f.v, f.elem)
SetUnspecifiedOf(f) ==
  IF f.kind = "NullableAttr" THEN NullableAttrSetUnspecified(f.v)
  ELSE NullableRelationshipSetUnspecified(f.v)
GetOf(f) ==
  IF f.kind = "NullableAttr" THEN NullableAttrGet(f.v, f.elem)
  ELSE NullableRelationshipGet(f.v, f.elem)

(***************************************************************************)
(* Unmarshal.  Its code (request.go) is not among the sources; what follows *)
(* is section 4.3 of the specification: UnmarshalPayload decodes a document *)
(* into a new object of the target type, field by field.                   *)
(***************************************************************************)
ErrInvalidTime == "ErrInvalidTime"
ErrInvalidType == "ErrInvalidType"

\* The external text codec: what an attribute value is once encoded and
\* decoded again, one of Null, Bool, Number, String (and Other, for the
\* objects and arrays no field below is decoded from).
JNull == [j |-> "null"]
JValue(j, v) == [j |-> j, v |-> v]
jsonOf(x) ==
  CASE x.k = "nil" -> JNull
    [] x.k = "string" -> JValue("string", x.v)
    [] x.k = "bool" -> JValue("bool", x.v)
    [] x.k \in SignedKinds \cup UnsignedKinds -> JValue("number", x.v)
    [] OTHER -> [j |-> "other"]

\* strconv.ParseInt in base 10: -1 for a string that is no numeral.
DigitOf(ch) ==
  CASE ch = "0" -> 0 [] ch = "1" -> 1 [] ch = "2" -> 2 [] ch = "3" -> 3
    [] ch = "4" -> 4 [] ch = "5" -> 5 [] ch = "6" -> 6 [] ch = "7" -> 7
    [] ch = "8" -> 8 [] ch = "9" -> 9 [] OTHER -> 0 - 1

RECURSIVE ParseDigits(_, _)
ParseDigits(s, acc) ==
  IF Len(s) = 0 THEN acc
  ELSE LET d == DigitOf(SubSeq(s, 1, 1))
       IN IF d < 0 THEN 0 - 1 ELSE ParseDigits(SubSeq(s, 2, Len(s)), acc * 10 + d)

Parsed(ok, v) == [ok |-> ok, v |-> v]
ParseUint(s) ==
  IF Len(s) = 0 \/ ParseDigits(s, 0) < 0 THEN Parsed(FALSE, 0)
  ELSE Parsed(TRUE, ParseDigits(s, 0))
ParseInt(s) ==
  IF Len(s) > 1 /\ SubSeq(s, 1, 1) = "-"
  THEN LET p == ParseUint(SubSeq(s, 2, Len(s))) IN Parsed(p.ok, 0 - p.v)
  ELSE ParseUint(s)

\* time.Parse of a formatted time: the time it is the format of.
KnownTimes == {TimeAt(1471422432)}
TimeOf(found) ==
  IF found = {} THEN Parsed(FALSE, ZeroTime)
  ELSE Parsed(TRUE, CHOOSE t \in found : TRUE)
ParseTime(s) == TimeOf({t \in KnownTimes : FormatUTC(t) = s})

\* The coercion of a decoded value to a field of the given kind.
Coerced(err, v) == [err |-> err, v |-> v]
coerceTime(p) ==
  IF p.ok THEN Coerced("", p.v) ELSE Coerced(ErrInvalidTime, ZeroTime)
coerceUnix(p) ==
  IF p.ok THEN Coerced("", TimeAt(p.v)) ELSE Coerced(ErrInvalidTime, ZeroTime)
coerce(kind, args, jv) ==
  CASE kind = "string" ->
         IF jv.j = "string" THEN Coerced("", jv.v) ELSE Coerced(ErrInvalidType, "")
    [] kind = "bool" ->
         IF jv.j = "bool" THEN Coerced("", jv.v) ELSE Coerced(ErrInvalidType, FALSE)
    [] kind \in SignedKinds \cup UnsignedKinds ->
         IF jv.j = "number" THEN Coerced("", jv.v) ELSE Coerced(ErrInvalidType, 0)
    [] kind = "time" ->
         IF \E a \in 1..Len(args) : args[a] \in {annotationISO8601, annotationRFC3339}
         THEN IF jv.j = "string" THEN coerceTime(ParseTime(jv.v))
              ELSE Coerced(ErrInvalidTime, ZeroTime)
         ELSE IF jv.j = "number" THEN coerceUnix(ParseInt(jv.v))
              ELSE Coerced(ErrInvalidTime, ZeroTime)

\* The zero value of a field, and new(T) for the type of a model.
ZeroValue(f) ==
  CASE f.kind = "string" -> ""
    [] f.kind = "bool" -> FALSE
    [] f.kind \in SignedKinds \cup UnsignedKinds -> 0
    [] f.kind = "time" -> ZeroTime
    [] f.kind = "ptr" -> NilPtr
    [] f.kind = "slice" -> NilSlice
    [] f.kind \in {"map", "NullableAttr", "NullableRelationship"} -> NilMap
    [] OTHER -> f.v
New(proto) ==
  [proto EXCEPT !.fields = [i \in DOMAIN proto.fields |->
                              [proto.fields[i] EXCEPT !.v = ZeroValue(proto.fields[i])]]]

\* The type of the objects a relation field refers to.
RelatedType(relation) ==
  CASE relation \in {"posts", "current_post"} -> Post(0, "", NilSlice, NilPtr)
    [] relation \in {"comments", "latest_comment", "nullable_comment"} -> Comment(0, "")
    [] relation \in {"book", "books"} -> Book("", "")

\* The full resource of a reference: data with no attributes of its own is
\* looked up in the Included Set by (type, id), and stays as it is when the
\* set has no such entry; data with attributes is decoded in place.
fullNode(n, included) ==
  IF DOMAIN n.Attributes.m = {} /\ includedKey(n) \in DOMAIN included
  THEN included[includedKey(n)]
  ELSE n

Unmarshalled(err, obj) == [err |-> err, obj |-> obj]

unmarshalPrimary(f, id) ==
  LET kind == IF f.kind = "ptr" THEN f.elem ELSE f.kind
      wrap(x) == IF f.kind = "ptr" THEN PtrVal(x) ELSE x
  IN IF id = "" THEN Coerced("", f.v)
     ELSE IF kind = "string" THEN Coerced("", wrap(id))
     ELSE IF kind \in SignedKinds
     THEN IF ParseInt(id).ok THEN Coerced("", wrap(ParseInt(id).v))
          ELSE Coerced(ErrBadJSONAPIID, f.v)
     ELSE IF kind \in UnsignedKinds
     THEN IF ParseUint(id).ok THEN Coerced("", wrap(ParseUint(id).v))
          ELSE Coerced(ErrBadJSONAPIID, f.v)
     ELSE Coerced(ErrBadJSONAPIID, f.v)

\* An attribute: a nullable field takes its state from the key; any other
\* field is left alone when the key is absent or null.
setAttribute(f, x) ==
  IF x.err # "" THEN Coerced(x.err, f.v)
  ELSE IF f.kind = "NullableAttr" THEN Coerced("", SetOf(f, x.v))
  ELSE x
decodeAttribute(f, c, jv) ==
  IF jv.j = "null"
  THEN Coerced("", IF f.kind = "NullableAttr" THEN SetNullOf(f) ELSE f.v)
  ELSE setAttribute(f, coerce(IF f.kind = "NullableAttr" THEN f.elem ELSE f.kind,
                              TagArgs(c), jv))
unmarshalAttribute(f, c, attributes) ==
  IF c.currentTag[2] \notin DOMAIN attributes.m
  THEN Coerced("", IF f.kind = "NullableAttr" THEN SetUnspecifiedOf(f) ELSE f.v)
  ELSE decodeAttribute(f, c, jsonOf(attributes.m[c.currentTag[2]]))

RECURSIVE unmarshalNode(_, _, _)
RECURSIVE unmarshalMany(_, _, _)
RECURSIVE unmarshalFields(_, _, _, _)
RECURSIVE setField(_, _, _, _, _)

\* A relation: untouched when its key is absent; an empty reference for null
\* data; a nullable relation takes its state from the key.
unmarshalRelation(f, c, relationships, included) ==
  LET name == c.currentTag[2]
      present == name \in DOMAIN relationships.m
      rel == relationships.m[name]
      proto == RelatedType(name)
  IN IF f.kind = "NullableRelationship"
     THEN IF ~present THEN Coerced("", SetUnspecifiedOf(f))
          ELSE IF rel.Data.nil THEN Coerced("", SetNullOf(f))
          ELSE LET m == unmarshalNode(fullNode(rel.Data, included), proto, included)
               IN IF m.err # "" THEN Coerced(m.err, f.v)
                  ELSE Coerced("", SetOf(f, PtrVal(m.obj)))
     ELSE IF ~present THEN Coerced("", f.v)
     ELSE IF f.kind = "slice"
     THEN LET ms == unmarshalMany(rel.Data.items, proto, included)
          IN IF ms.err # "" THEN Coerced(ms.err, f.v)
             ELSE Coerced("", SliceOf(ms.obj))
     ELSE IF rel.Data.nil THEN Coerced("", NilPtr)
     ELSE LET m == unmarshalNode(fullNode(rel.Data, included), proto, included)
          IN IF m.err # "" THEN Coerced(m.err, f.v)
             ELSE Coerced("", PtrVal(m.obj))

unmarshalMany(nodes, proto, included) ==
  IF nodes = <<>> THEN Unmarshalled("", <<>>)
  ELSE LET m == unmarshalNode(fullNode(Head(nodes), included), proto, included)
           ms == unmarshalMany(Tail(nodes), proto, included)
       IN IF m.err # "" THEN Unmarshalled(m.err, <<>>)
          ELSE IF ms.err # "" THEN ms
          ELSE Unmarshalled("", <<PtrVal(m.obj)>> \o ms.obj)

\* One field of the object, by the role of its tag.
unmarshalField(node, f, c, included) ==
  IF ~HasTag(c) \/ TagType(c) = annotationLinks THEN Coerced("", f.v)
  ELSE IF ValidTag(c) # "" THEN Coerced(ValidTag(c), f.v)
  ELSE IF TagType(c) = annotationPrimary THEN unmarshalPrimary(f, node.ID)
  ELSE IF TagType(c) = annotationClientID
  THEN Coerced("", IF node.ClientID # "" THEN node.ClientID ELSE f.v)
  ELSE IF TagType(c) = annotationAttribute
  THEN unmarshalAttribute(f, c, node.Attributes)
  ELSE IF TagType(c) = annotationRelation
  THEN unmarshalRelation(f, c, node.Relationships, included)
  ELSE Coerced(ErrBadJSONAPIStructTag, f.v)

\* The fields of the object from field i on, in declaration order; the
\* first error ends the decoding.
setField(node, obj, i, included, x) ==
  IF x.err # "" THEN Unmarshalled(x.err, obj)
  ELSE unmarshalFields(node, [obj EXCEPT !.fields[i].v = x.v], i + 1, included)
unmarshalFields(node, obj, i, included) ==
  IF i > Len(obj.fields) THEN Unmarshalled("", obj)
  ELSE setField(node, obj, i, included,
                unmarshalField(node, obj.fields[i], CursorNext(obj, i), included))

\* unmarshalNode: the node decoded into a new object of the type of proto.
unmarshalNode(node, proto, included) ==
  unmarshalFields(node, New(proto), 1, included)

(***************************************************************************)
(* The inputs: the models an application hands to the visitor.             *)
(***************************************************************************)
RECURSIVE SeqsUpTo(_, _)
SeqsUpTo(S, n) ==
  IF n = 0 THEN {<<>>}
  ELSE LET shorter == SeqsUpTo(S, n - 1)
       IN shorter \cup {Append(q, x) : q \in {r \in shorter : Len(r) = n - 1}, x \in S}

Slices(S) == {NilSlice} \cup {SliceOf(q) : q \in SeqsUpTo(S, MaxLen)}

PostPtrs == {NilPtr, PtrTo("p1"), PtrTo("p1b"), PtrTo("p2")}
CurrentPostPtrs == {NilPtr, PtrTo("p1b"), PtrTo("p2")}
BookPtrs == {NilPtr, PtrTo("bk0"), PtrTo("bk1")}
HeroPtrs == {NilPtr, PtrTo("mI"), PtrTo("mV"), PtrTo("mIV"), PtrTo("mNone")}
MediaPtrs == {NilPtr, PtrTo("mI"), PtrTo("mV"), PtrTo("mNone")}

aTime == TimeAt(1471422432)  \* 2016-08-17T08:27:12Z

\* The values the application sets a nullable field of the model to.
ValuesOf(elem) ==
  CASE elem = "bool" -> BOOLEAN
    [] elem = "time" -> {aTime, ZeroTime}
    [] OTHER -> {PtrTo("c1"), NilPtr}

NullableFields ==
  {i \in 1..Len(root.fields) :
     root.fields[i].kind \in {"NullableAttr", "NullableRelationship"}}

(***************************************************************************)
(* The state machine.                                                      *)
(***************************************************************************)
NoGot == [op |-> "none", field |-> 0, v |-> FALSE, err |-> NoError]
NilInterface == [nil |-> TRUE]
EmptyIncluded == <<>>

\* A call of Visit under way: its argument, its cursor, its node, the
\* relation it is visiting, and whether it has deferred the reset of rootModel.
Frame(next, deferred) ==
  [next |-> next, nextField |-> 1, node |-> NewNode, rel |-> NoRel,
   deferred |-> deferred]

Top == stack[Len(stack)]
Callers == SubSeq(stack, 1, Len(stack) - 1)
Idle == stack = <<>>

\* The application has built a model and a visitor for it (an empty
\* Included Set; side-load or embed mode).
Setup(model, sideload) ==
  /\ root = model
  /\ Included = EmptyIncluded
  /\ Sideload = sideload
  /\ rootModel = NilInterface
  /\ stack = <<>>
  /\ result = NoResult
  /\ visits = 0
  /\ ops = 0
  /\ got = NoGot
  /\ legacy = [i \in NullableFields |-> NilMap]

\* The models of the tests, over the related objects of the heap.
SetupBlog ==
  \E posts \in Slices(PostPtrs), current \in CurrentPostPtrs, sideload \in BOOLEAN :
    \/ Setup(Blog(1, "", posts, current), sideload)
    \/ Setup(BlogOptionalPosts(999, posts, current), sideload)

SetupLibrary ==
  \E current \in BookPtrs \cup {PtrTo("bk2")}, books \in Slices(BookPtrs),
     sideload \in BOOLEAN :
    Setup(Library(999, current, books), sideload)

SetupPoly ==
  \E hero \in HeroPtrs, media \in Slices(MediaPtrs), omit, sideload \in BOOLEAN :
    Setup(BlogPostWithPoly("1", hero, media, omit), sideload)

SetupID ==
  \E sideload \in BOOLEAN :
    \/ \E kind \in SignedKinds, v \in {0, 7, 0 - 3, 42} :
         \/ Setup(IDModel(kind, "", v), sideload)
         \/ Setup(IDModel("ptr", kind, PtrVal(v)), sideload)
    \/ \E kind \in UnsignedKinds, v \in {0, 7, 42} :
         \/ Setup(IDModel(kind, "", v), sideload)
         \/ Setup(IDModel("ptr", kind, PtrVal(v)), sideload)
    \/ \E v \in {"", "abc"} :
         \/ Setup(IDModel("string", "", v), sideload)
         \/ Setup(IDModel("ptr", "string", PtrVal(v)), sideload)
    \/ \E v \in BOOLEAN :
         \/ Setup(IDModel("bool", "", v), sideload)
         \/ Setup(IDModel("ptr", "bool", PtrVal(v)), sideload)
    \/ \E elem \in {"string", "uint64", "bool"} :
         Setup(IDModel("ptr", elem, NilPtr), sideload)

Times == {ZeroTime, aTime}
TimePtrs == {NilPtr, PtrVal(ZeroTime), PtrVal(aTime)}

SetupTimestamp ==
  \E dv \in Times, iv \in Times, rv \in Times, p \in TimePtrs, sideload \in BOOLEAN :
    Setup(TimestampModel(dv, p, iv, p, rv, p), sideload)

\* The attributes of a Company: empty and not.
Bosses == {Employee("", "", 0), Employee("Hubert", "Farnsworth", 176)}
Managers == {NilPtr, PtrVal(Employee("Hermes", "Conrad", 36))}
Teams == {NilSlice, SliceOf(<<>>), SliceOf(<<Team("Dev")>>)}
Peoples == {NilSlice, SliceOf(<<PtrVal(People("Fry", 25))>>)}

SetupCompany ==
  \E name \in {"", "test"}, boss \in Bosses, manager \in Managers,
     teams \in Teams, people \in Peoples, foundedAt \in Times :
    \/ Setup(Company(name, boss, manager, teams, people, foundedAt), FALSE)
    \/ Setup(CompanyOmitEmpty(name, boss, manager, teams, people, foundedAt), FALSE)

Phones == {NilSlice, SliceOf(<<>>), SliceOf(<<PtrVal([Number |-> "555"])>>)}
Addresses == {NilPtr, PtrVal([City |-> "", Street |-> ""])}
TagsMaps == {NilMap, MakeMap, [nil |-> FALSE, m |-> [dogs |-> 1, cats |-> 2]]}

SetupAuthor ==
  \E phones \in Phones, address \in Addresses, tags \in TagsMaps :
    Setup(Author(phones, address, tags), FALSE)

\* The tags of the field of BadModel: malformed ones and well-formed ones,
\* a second primary with a token after the type name, and a links field.
BadModelTags ==
  {"primary", "attr", "relation", "links", "bogus", "bogus,name",
   "client-id,extra", "attr,name", "client-id",
   "primary,badmodels,extra", "links,omitempty", "links,omitempty,extra"}

SetupBadModel ==
  \E tag \in BadModelTags, sideload \in BOOLEAN : Setup(BadModel(tag), sideload)

\* A Person whose friends are no one, a Person with no friends (pc), a
\* Person on a cycle of two (pa), or the Person itself.
FriendPtrs == {NilPtr, PtrTo("pc"), PtrTo("pa"), PtrTo("root")}
FriendLists ==
  {NilSlice, SliceOf(<<PtrTo("pc")>>), SliceOf(<<PtrTo("pc"), PtrTo("root")>>),
   SliceOf(<<PtrTo("pb")>>)}

SetupPerson ==
  \E friend \in FriendPtrs, friends \in FriendLists, sideload \in BOOLEAN :
    Setup(Person(3, friend, friends), sideload)

SetupSite ==
  \E blog \in {NilPtr, PtrTo("b7")}, sideload \in BOOLEAN :
    Setup(Site(1, blog), sideload)

SetupDeprecated ==
  \E title \in {"", "Hello, World"}, second \in {"", "Later"},
     media \in {NilPtr, PtrTo("mV")}, image \in {NilPtr, PtrTo("img")},
     omit \in BOOLEAN, sideload \in BOOLEAN :
    Setup(withDeprecatedRelation(title, second, media, image, omit), sideload)

SetupNullable ==
  \E sideload \in BOOLEAN :
    Setup(WithNullableAttrs(5, NilMap, NilMap, NilMap), sideload)

Init ==
  \/ SetupBlog \/ SetupLibrary \/ SetupPoly \/ SetupID \/ SetupNullable
  \/ SetupBadModel \/ SetupTimestamp \/ SetupCompany \/ SetupAuthor
  \/ SetupPerson \/ SetupSite \/ SetupDeprecated

\* The operations of the nullable fields, on a model not yet marshalled.
Set(i, value) ==
  /\ Idle /\ visits = 0 /\ ops < MaxOps
  /\ root' = [root EXCEPT !.fields[i].v = SetOf(root.fields[i], value)]
  /\ legacy' = [legacy EXCEPT ![i] = NullableSet(legacy[i], value)]
  /\ got' = [op |-> "Set", field |-> i, v |-> value, err |-> NoError]
  /\ ops' = ops + 1
  /\ UNCHANGED <<Included, Sideload, rootModel, stack, result, visits>>

SetNull(i) ==
  /\ Idle /\ visits = 0 /\ ops < MaxOps
  /\ root' = [root EXCEPT !.fields[i].v = SetNullOf(root.fields[i])]
  /\ legacy' = [legacy EXCEPT ![i] = NullableSetNull(legacy[i], root.fields[i].elem)]
  /\ got' = [op |-> "SetNull", field |-> i, v |-> FALSE, err |-> NoError]
  /\ ops' = ops + 1
  /\ UNCHANGED <<Included, Sideload, rootModel, stack, result, visits>>

SetUnspecified(i) ==
  /\ Idle /\ visits = 0 /\ ops < MaxOps
  /\ root' = [root EXCEPT !.fields[i].v = SetUnspecifiedOf(root.fields[i])]
  /\ legacy' = [legacy EXCEPT ![i] = NullableSetUnspecified(legacy[i])]
  /\ got' = [op |-> "SetUnspecified", field |-> i, v |-> FALSE, err |-> NoError]
  /\ ops' = ops + 1
  /\ UNCHANGED <<Included, Sideload, rootModel, stack, result, visits>>

Get(i) ==
  /\ Idle /\ visits = 0 /\ ops < MaxOps
  /\ got' = [op |-> "Get", field |-> i,
             v |-> GetOf(root.fields[i]).v, err |-> GetOf(root.fields[i]).err]
  /\ ops' = ops + 1
  /\ UNCHANGED <<Included, Sideload, rootModel, stack, result, root, visits, legacy>>

\* How a call of Visit that fails or panics ends: every caller returns the
\* error at once, and the deferred reset of rootModel runs.
Abort(o) ==
  /\ stack' = <<>>
  /\ result' = [st |-> o.st, node |-> NilNode, err |-> o.err]
  /\ rootModel' = IF \E k \in 1..Len(stack) : stack[k].deferred
                  THEN NilInterface ELSE rootModel
  /\ UNCHANGED <<Included, Sideload, root, visits, ops, got, legacy>>

\* What Visit returns at once, lines 519-522: no node and no error for a nil
\* value, nothing yet for any other.  (visitNil_unexpectedNil: the nil value
\* as the error it is for an element of a to-many relation.)
visitNil_unexpectedNil(value) ==
  IF value.nil THEN Fail(ErrUnexpectedNil) ELSE NoResult

visitNil(value) == IF value.nil THEN Ok(NilNode) ELSE NoResult

\* Lines 513-517: the rootModel a call of Visit goes on with.  Only a call
\* that finds it nil sets it, and defers its reset.
\* (setRootModel_always: the same without the test.)
setRootModel_always(current, next) == next

setRootModel(current, next) == IF current.nil THEN next ELSE current

\* Visit, called by the application: lines 510-524.
Visit(next) ==
  /\ Idle
  /\ visits < MaxVisits
  /\ visits' = visits + 1
  /\ IF next.nil
     THEN /\ result' = visitNil(next)
          /\ rootModel' = IF rootModel.nil THEN NilInterface ELSE rootModel
          /\ stack' = <<>>
     ELSE /\ result' = NoResult
          /\ rootModel' = setRootModel(rootModel, next)
          /\ stack' = <<Frame(next, rootModel.nil)>>
  /\ UNCHANGED <<Included, Sideload, root, ops, got, legacy>>

\* One turn of Visit's loop over the fields: lines 525-543.
VisitField ==
  /\ ~Idle
  /\ ~Top.rel.active
  /\ Top.nextField <= Len(Deref(Top.next).fields)
  /\ LET c == CursorNext(Deref(Top.next), Top.nextField)
         advanced == [Top EXCEPT !.nextField = @ + 1]
     IN IF ~HasTag(c)
        THEN /\ stack' = Append(Callers, advanced)
             /\ UNCHANGED <<Included, Sideload, rootModel, result, root, visits, ops, got, legacy>>
        ELSE IF ValidTag(c) # ""
        THEN Abort(Fail(ValidTag(c)))
        ELSE LET o == visitField(Top.node, c, rootModel)
             IN IF o.st \in {"err", "panic"}
                THEN Abort(o)
                ELSE /\ stack' = Append(Callers,
                                        [advanced EXCEPT !.node = o.node, !.rel = o.rel])
                     /\ UNCHANGED <<Included, Sideload, rootModel, result, root,
                                    visits, ops, got, legacy>>

\* visitFieldTypeRelation at its next reference: the nil check of
\* visitModelNodeRelationships and the nested call of Visit, or, with every
\* reference visited, lines 420-468.
VisitRelation ==
  /\ ~Idle
  /\ Top.rel.active
  /\ LET rel == Top.rel
         i == Len(rel.nodes) + 1
     IN IF i <= Len(rel.items)
        THEN IF rel.isSlice /\ validModel(rel.items[i]) # ""
             THEN Abort(Fail(validModel(rel.items[i])))
             ELSE IF "ref" \notin DOMAIN rel.items[i]
             THEN Abort(Panic)  \* newModelCursor: Elem of a map Value
             ELSE /\ Len(stack) < MaxDepth
                  /\ stack' = Append(stack, Frame(rel.items[i], rootModel.nil))
                  /\ rootModel' = setRootModel(rootModel, rel.items[i])
                  /\ UNCHANGED <<Included, Sideload, result, root, visits, ops, got, legacy>>
        ELSE LET e == relationEnd(Top.node, rel, Included, Sideload)
             IN /\ stack' = Append(Callers, [Top EXCEPT !.node = e.node, !.rel = NoRel])
                /\ Included' = e.inc
                /\ UNCHANGED <<Sideload, rootModel, result, root, visits, ops, got, legacy>>

\* The end of Visit, after the loop: lines 545-557, and the return to the
\* caller.
VisitReturn ==
  /\ ~Idle
  /\ ~Top.rel.active
  /\ Top.nextField > Len(Deref(Top.next).fields)
  /\ LET obj == Deref(Top.next)
         linked == IF Linkable(obj)
                   THEN [Top.node EXCEPT !.Links = JSONAPILinks(obj)]
                   ELSE Top.node
         node == IF Metable(obj)
                 THEN [linked EXCEPT !.Meta = JSONAPIMeta(obj)]
                 ELSE linked
     IN IF Linkable(obj) /\ ~validate(JSONAPILinks(obj))
        THEN Abort(Fail(ErrInvalidLinks))
        ELSE IF Len(stack) = 1
        THEN /\ stack' = <<>>
             /\ result' = Ok(node)
             /\ rootModel' = IF Top.deferred THEN NilInterface ELSE rootModel
             /\ UNCHANGED <<Included, Sideload, root, visits, ops, got, legacy>>
        ELSE LET caller == stack[Len(stack) - 1]
             IN /\ stack' = Append(SubSeq(stack, 1, Len(stack) - 2),
                                   [caller EXCEPT !.rel.nodes = Append(@, node)])
                /\ rootModel' = IF Top.deferred THEN NilInterface ELSE rootModel
                /\ UNCHANGED <<Included, Sideload, result, root, visits, ops, got, legacy>>

\* The documents of the tests of the nullable fields: a with-nullables
\* resource with one of the nullable attributes absent, null or set, and the
\* nullable relationship absent, null or set.
NullableAttribute(key, value) ==
  LET name == MapPut(MakeMap, "name", Iface("string", "", "Name"))
  IN IF key = "" THEN name
     ELSE IF value = "null" THEN MapPut(name, key, NilIface)
     ELSE IF key = "bool" THEN MapPut(name, key, Iface("bool", "", value = "true"))
     ELSE IF key = "int_time" THEN MapPut(name, key, Iface("int64", "", Unix(aTime)))
     ELSE MapPut(name, key, Iface("string", "", FormatUTC(aTime)))
NullableRelationship(rel) ==
  CASE rel = "absent" -> NilMap
    [] rel = "empty" -> MakeMap
    [] rel = "null" ->
         MapPut(MakeMap, "nullable_comment",
                RelationshipOneNode(NilNode, NilLinks, NilMeta))
    [] rel = "value" ->
         MapPut(MakeMap, "nullable_comment",
                RelationshipOneNode([NewNode EXCEPT !.Type = "comments", !.ID = "5"],
                                    NilLinks, NilMeta))
Payload(data, included) == [data |-> data, included |-> included]
NullablePayload(key, value, rel) ==
  Payload([NewNode EXCEPT !.Type = "with-nullables", !.ID = "10",
                          !.Attributes = NullableAttribute(key, value),
                          !.Relationships = NullableRelationship(rel)],
          EmptyIncluded)

\* The models whose documents are unmarshalled again: those whose attributes
\* are strings, integers and times.
RoundTripModels == {"Blog", "BlogOptionalPosts", "Library", "Foo"}

\* The documents the application has to unmarshal: the one it has just
\* marshalled, or one of the tests' for a new WithNullableAttrs.
Payloads ==
  IF root.name = "WithNullableAttrs"
  THEN IF visits = 0 /\ ops = 0
       THEN {<<key, value, rel>> :
               key \in {"", "int_time", "rfc3339_time", "iso8601_time", "bool"},
               value \in {"null", "true", "false"},
               rel \in {"absent", "empty", "null", "value"}}
       ELSE {}
  ELSE IF /\ root.name \in RoundTripModels
          /\ result.st = "ok" /\ ~result.node.nil
       THEN {<<"", "marshalled", "">>}
       ELSE {}
PayloadOf(p) ==
  IF p[2] = "marshalled" THEN Payload(result.node, Included)
  ELSE NullablePayload(p[1], p[2], p[3])

\* UnmarshalPayload(payload, out) for out a new object of the model's type.
UnmarshalPayload(payload) ==
  /\ Idle
  /\ got.op # "UnmarshalPayload"
  /\ LET m == unmarshalNode(payload.data, root, payload.included)
     IN got' = [op |-> "UnmarshalPayload", field |-> 0, v |-> m.obj,
                err |-> m.err, payload |-> payload]
  /\ UNCHANGED <<Included, Sideload, rootModel, stack, result, root, visits, ops,
                 legacy>>

Next ==
  \/ \E p \in Payloads : UnmarshalPayload(PayloadOf(p))
  \/ \E i \in NullableFields : \E value \in ValuesOf(root.fields[i].elem) : Set(i, value)
  \/ \E i \in NullableFields : SetNull(i)
  \/ \E i \in NullableFields : SetUnspecified(i)
  \/ \E i \in NullableFields : Get(i)
  \/ \E next \in {PtrTo("root"), NilPtr} : Visit(next)
  \/ VisitField
  \/ VisitRelation
  \/ VisitReturn

Spec == Init /\ [][Next]_vars

(***************************************************************************)
(* Properties.  The state predicates they share come first.                *)
(***************************************************************************)
\* Visit of the application's model (not of a nil pointer) has returned.
Marshalled ==
  /\ Idle
  /\ result.st # "none"
  /\ ~(result.st = "ok" /\ result.node.nil)

Succeeded == Marshalled /\ result.st = "ok"

Rels == result.node.Relationships.m
HasRel(name) == name \in DOMAIN result.node.Relationships.m
Attrs == result.node.Attributes.m
HasAttr(name) == name \in DOMAIN result.node.Attributes.m

Fields == 1..Len(root.fields)
Tagged(c, role) == Len(c.currentTag) >= 2 /\ c.currentTag[1] = role
PlainToMany(c) == Tagged(c, annotationRelation) /\ c.kind = "slice"
PlainToOne(c) == Tagged(c, annotationRelation) /\ c.kind = "ptr"
PolyToOne(c) == Tagged(c, annotationPolyRelation) /\ c.kind = "ptr"
OmitEmptyRelation(c) == Len(c.currentTag) >= 3 /\ c.currentTag[3] = annotationOmitEmpty
\* Field i is the only relation field of the model with its resource-level
\* name (what becomes of fields that share a name: C29).
OwnRelationName(i) ==
  \A j \in Fields \ {i} :
    LET c == CursorNext(root, j)
    IN ~(/\ Tagged(c, annotationRelation) \/ Tagged(c, annotationPolyRelation)
         /\ c.currentTag[2] = CursorNext(root, i).currentTag[2])
HasNilElement(slice) == \E j \in 1..Len(slice.items) : slice.items[j].nil

\* The three states of a nullable field.
Unspecified(f) == ~IsSpecified(f) /\ ~IsNull(f)
ExplicitNull(f) == IsSpecified(f) /\ IsNull(f)
Present(f) == IsSpecified(f) /\ ~IsNull(f)

\* C1: in side-load mode the Included Set holds an entry only under the
\* (type, id) of that entry, so at most one per (type, id), and an entry once
\* inserted is never replaced or removed: a later insertion under the same key
\* changes nothing.
C1_IncludedFirstWins ==
  /\ [](\A k \in DOMAIN Included : includedKey(Included[k]) = k)
  /\ [][\A k \in DOMAIN Included :
          k \in DOMAIN Included' /\ Included'[k] = Included[k]]_vars

\* Two posts of id 1 were side-loaded, "a" before "b": the entry is "a".
C1_Witness ==
  /\ Succeeded /\ Sideload /\ root.name = "Blog"
  /\ Len(root.fields[4].v.items) = 2
  /\ ~root.fields[4].v.items[1].nil /\ root.fields[4].v.items[1].ref = "p1"
  /\ ~root.fields[4].v.items[2].nil /\ root.fields[4].v.items[2].ref = "p1b"
  /\ "posts,1" \in DOMAIN Included
  /\ Included["posts,1"].Attributes.m["title"].v = "a"

\* C2: marshalling a model whose plain to-many relation holds a nil element,
\* at any index, fails with ErrUnexpectedNil; with no element (a nil or an
\* empty slice) and no omitempty it succeeds, and the relationship's data is
\* an empty list that is not nil.
C2_ToManyNilElement ==
  Marshalled =>
    \A i \in Fields :
      LET c == CursorNext(root, i)
          name == c.currentTag[2]
      IN PlainToMany(c) =>
           /\ HasNilElement(c.fieldValue)
                => result.st = "err" /\ result.err = ErrUnexpectedNil
           /\ (Len(c.fieldValue.items) = 0 /\ ~OmitEmptyRelation(c))
                => /\ result.st = "ok"
                   /\ HasRel(name)
                   /\ Rels[name].many
                   /\ ~Rels[name].Data.nil
                   /\ Len(Rels[name].Data.items) = 0

\* The posts of a Blog were a post and then nil: ErrUnexpectedNil.
C2_Witness ==
  /\ Marshalled /\ root.name = "Blog"
  /\ Len(root.fields[4].v.items) = 2
  /\ ~root.fields[4].v.items[1].nil
  /\ root.fields[4].v.items[2].nil
  /\ result.st = "err" /\ result.err = ErrUnexpectedNil

\* C3: a plain to-one relation holding nil is marshalled as a relationship
\* with null data; the relationship is absent exactly when the field is tagged
\* omitempty and holds nil; with omitempty a non-nil reference is written with
\* non-null data.  (Of a field with a relationship name of its own.)
C3_ToOneNull ==
  Succeeded =>
    \A i \in Fields :
      LET c == CursorNext(root, i)
          name == c.currentTag[2]
      IN (PlainToOne(c) /\ OwnRelationName(i)) =>
           /\ (c.fieldValue.nil /\ ~OmitEmptyRelation(c))
                => HasRel(name) /\ ~Rels[name].many /\ Rels[name].Data.nil
           /\ ~HasRel(name) <=> (OmitEmptyRelation(c) /\ c.fieldValue.nil)
           /\ (OmitEmptyRelation(c) /\ ~c.fieldValue.nil)
                => HasRel(name) /\ ~Rels[name].many /\ ~Rels[name].Data.nil

\* The current_post of a Blog (no omitempty) was nil: null data.
C3_Witness ==
  /\ Succeeded /\ root.name = "Blog"
  /\ root.fields[5].v.nil
  /\ HasRel("current_post")
  /\ Rels["current_post"].Data.nil

\* The primary field under the cursor: its kind and value behind a pointer.
PrimaryKind(c) == IF c.kind = "ptr" THEN c.elem ELSE c.kind
PrimaryValue(c) == IF c.kind = "ptr" THEN c.fieldValue.v ELSE c.fieldValue
PrimaryIsNil(c) == c.kind = "ptr" /\ c.fieldValue.nil
IsZeroInteger(c) ==
  PrimaryKind(c) \in SignedKinds \cup UnsignedKinds /\ PrimaryValue(c) = 0
IsEmptyString(c) == PrimaryKind(c) = "string" /\ PrimaryValue(c) = ""

IsShallowOf(d, n) ==
  /\ ~d.nil
  /\ d.Type = n.Type
  /\ d.ClientID = "" /\ d.Relationships.nil /\ d.Links.nil /\ d.Meta.nil
  /\ IF n.ID # ""
     THEN d.ID = n.ID /\ d.Attributes.nil
     ELSE d.ID = "" /\ d.Attributes = n.Attributes

\* C5: in side-load mode, when a relation's references have all been visited,
\* the relationship written has one data node per related resource, each a
\* shallow reference to it (its type; its id alone when assigned, else its
\* attributes; no relationships, links, meta or client-id), and each related
\* resource is in the Included Set under its (type, id): the full node
\* itself when it is the first under that key.
C5_ShallowReferences ==
  [][(Sideload /\ ~Idle /\ Top.rel.active /\ Len(Top.rel.nodes) = Len(Top.rel.items))
       => LET rel == Top.rel
              written == stack'[Len(stack')].node.Relationships.m[rel.name]
              data == IF written.many THEN written.Data.items ELSE <<written.Data>>
          IN /\ written.many = rel.isSlice
             /\ Len(data) = Len(rel.nodes)
             /\ \A i \in 1..Len(rel.nodes) :
                  LET n == rel.nodes[i]
                      k == includedKey(n)
                  IN /\ IsShallowOf(data[i], n)
                     /\ k \in DOMAIN Included'
                     /\ (k \notin DOMAIN Included
                         /\ \A j \in 1..(i - 1) : includedKey(rel.nodes[j]) # k)
                          => Included'[k] = n]_vars

\* A Library with a book of no id and a list of one book of id "123": the
\* first reference carries the attributes, the second the id alone, and both
\* books are included.
C5_Witness ==
  /\ Succeeded /\ Sideload /\ root.name = "Library"
  /\ HasRel("book") /\ HasRel("books")
  /\ Rels["book"].Data.ID = "" /\ "title" \in DOMAIN Rels["book"].Data.Attributes.m
  /\ Len(Rels["books"].Data.items) = 1
  /\ Rels["books"].Data.items[1].ID = "123"
  /\ Rels["books"].Data.items[1].Attributes.nil
  /\ {"book,", "book,123"} \subseteq DOMAIN Included

\* The slots of a choice struct: its pointers to structs; the first one that
\* is populated.
IsSlot(f) == f.kind = "ptr" /\ f.elem = "struct"
Populated(choice) ==
  {j \in 1..Len(choice.fields) : IsSlot(choice.fields[j]) /\ ~choice.fields[j].v.nil}
FirstPopulated(choice) ==
  Deref(choice.fields[CHOOSE j \in Populated(choice) :
                        \A k \in Populated(choice) : j <= k].v)

\* C6: for a polymorphic to-one relation whose choice struct has a populated
\* slot, the relationship's data carries the type and the id of the first
\* populated slot in declaration order, whatever the later slots hold.  (Of a
\* field with a relationship name of its own.)
C6_PolyFirstSlot ==
  Succeeded =>
    \A i \in Fields :
      LET c == CursorNext(root, i)
          name == c.currentTag[2]
      IN (/\ PolyToOne(c) /\ OwnRelationName(i)
          /\ ~c.fieldValue.nil /\ Populated(Deref(c.fieldValue)) # {})
           => LET slot == FirstPopulated(Deref(c.fieldValue))
                  primary == CursorNext(slot, 1)
              IN /\ HasRel(name) /\ ~Rels[name].many /\ ~Rels[name].Data.nil
                 /\ Rels[name].Data.Type = primary.currentTag[2]
                 /\ Rels[name].Data.ID = primary.fieldValue

\* The hero media held Image{id "2"} and then Video{id "3"}: images, "2".
C6_Witness ==
  /\ Succeeded /\ root.name = "BlogPostWithPoly"
  /\ ~root.fields[3].v.nil /\ root.fields[3].v.ref = "mIV"
  /\ HasRel("hero-media")
  /\ Rels["hero-media"].Data.Type = "images"
  /\ Rels["hero-media"].Data.ID = "2"

\* C7: a NullableAttr or NullableRelationship is, after any sequence of Set,
\* SetNull and SetUnspecified from the zero value, in exactly one of the
\* states Unspecified, ExplicitNull and Present; Set leaves it Present, also
\* with the zero value of T, SetNull leaves it ExplicitNull and SetUnspecified
\* leaves it Unspecified.
C7_ExactlyOneState ==
  \A i \in NullableFields :
    LET f == root.fields[i]
        after(v) == [f EXCEPT !.v = v]
    IN /\ Cardinality({st \in {"Unspecified", "ExplicitNull", "Present"} :
                         \/ st = "Unspecified" /\ Unspecified(f)
                         \/ st = "ExplicitNull" /\ ExplicitNull(f)
                         \/ st = "Present" /\ Present(f)}) = 1
       /\ \A value \in ValuesOf(f.elem) : Present(after(SetOf(f, value)))
       /\ ExplicitNull(after(SetNullOf(f)))
       /\ Unspecified(after(SetUnspecifiedOf(f)))

\* The bool field was set null and then set to false, the zero value: Present.
C7_Witness ==
  /\ root.name = "WithNullableAttrs" /\ ops = 2
  /\ DOMAIN root.fields[6].v.m = {TRUE}
  /\ root.fields[6].v.m[TRUE] = FALSE
  /\ Present(root.fields[6])

\* C8: Get returns the value and no error exactly when the field is Present;
\* when it is ExplicitNull Get returns the zero value and the error "value is
\* null"; when it is Unspecified Get returns the zero value and the error
\* "value is not specified".
C8_Get ==
  got.op = "Get" =>
    LET f == root.fields[got.field]
    IN /\ got.err = NoError <=> Present(f)
       /\ Present(f) => got.v = f.v.m[TRUE]
       /\ ExplicitNull(f) => got.err = "value is null" /\ got.v = ZeroOf(f.elem)
       /\ Unspecified(f)
            => got.err = "value is not specified" /\ got.v = ZeroOf(f.elem)

\* Get on the time field after SetNull: the zero time and "value is null".
C8_Witness ==
  /\ got.op = "Get" /\ got.field = 3
  /\ ExplicitNull(root.fields[3])
  /\ got.err = "value is null"
  /\ got.v = ZeroTime

\* A NullableAttr field tagged omitempty.
OmittableNullableAttr(i) ==
  /\ root.fields[i].kind = "NullableAttr"
  /\ Tagged(CursorNext(root, i), annotationAttribute)
  /\ HasArg(CursorNext(root, i), annotationOmitEmpty)

\* The attribute a plain field of type T and of value v is written as.
PlainAttribute(c, v) ==
  IF c.elem = "time"
  THEN encodeTime(v, HasArg(c, annotationISO8601), HasArg(c, annotationRFC3339))
  ELSE Iface(c.elem, "", v)

\* C9: a NullableAttr attribute tagged omitempty is marshalled by its state:
\* Unspecified leaves the attribute absent, ExplicitNull writes it as null,
\* Present(v) writes it as v, encoded as a plain attribute of type T is.
C9_NullableAttrTriState ==
  Succeeded =>
    \A i \in Fields :
      OmittableNullableAttr(i) =>
        LET c == CursorNext(root, i)
            f == root.fields[i]
            name == c.currentTag[2]
        IN /\ Unspecified(f) => ~HasAttr(name)
           /\ ExplicitNull(f) => HasAttr(name) /\ Attrs[name].k = "nil"
           /\ Present(f)
                => /\ HasAttr(name)
                   /\ Attrs[name].k = PlainAttribute(c, f.v.m[TRUE]).k
                   /\ Attrs[name].v = PlainAttribute(c, f.v.m[TRUE]).v

\* C10: a NullableAttr attribute tagged omitempty that SetUnspecified was
\* called on last (its map is empty and not nil) is absent from the
\* marshalled node, as one never set is.
C10_SetUnspecifiedOmits ==
  Succeeded =>
    \A i \in Fields :
      (OmittableNullableAttr(i) /\ ~root.fields[i].v.nil /\ MapLen(root.fields[i].v) = 0)
        => ~HasAttr(CursorNext(root, i).currentTag[2])

\* The decimal numerals of the integers the models use as primary keys.
Decimal(n) ==
  CASE n = 0 -> "0" [] n = 1 -> "1" [] n = 5 -> "5" [] n = 7 -> "7"
    [] n = 42 -> "42" [] n = 999 -> "999" [] n = 0 - 3 -> "-3"

\* C11: a primary field of a signed or unsigned integer kind, or of string
\* kind, held directly or through a pointer, is marshalled as its decimal or
\* verbatim string id and is no cause of ErrBadJSONAPIID; a primary field of
\* any other kind fails the call with ErrBadJSONAPIID.
C11_PrimaryConversion ==
  Marshalled =>
    \A i \in Fields :
      LET c == CursorNext(root, i)
      IN Tagged(c, annotationPrimary) =>
           IF PrimaryKind(c) \in SignedKinds \cup UnsignedKinds \cup {"string"}
           THEN ~PrimaryIsNil(c)
                  => /\ result.err # ErrBadJSONAPIID
                     /\ result.st = "ok"
                          => result.node.ID =
                               IF PrimaryKind(c) = "string" THEN PrimaryValue(c)
                               ELSE Decimal(PrimaryValue(c))
           ELSE result.st = "err" /\ result.err = ErrBadJSONAPIID

\* A malformed configuration: an unknown role, a role other than client-id
\* with no name token, or client-id with more than its one token.
KnownRoles ==
  {annotationPrimary, annotationClientID, annotationAttribute,
   annotationRelation, annotationPolyRelation, annotationLinks}
Malformed(tag) ==
  \/ tag[1] \notin KnownRoles
  \/ tag[1] # annotationClientID /\ Len(tag) < 2
  \/ tag[1] = annotationClientID /\ Len(tag) # 1

\* C12: when the field of BadModel, declared between two relations, has a
\* malformed tag, Visit returns ErrBadJSONAPIStructTag and no node; the
\* relation declared before the field has been processed (in side-load mode
\* its comment is included) and the relation declared after it has not.
C12_MalformedTag ==
  (Marshalled /\ root.name = "BadModel"
   /\ Malformed(CursorNext(root, 3).currentTag))
    => /\ result.st = "err" /\ result.err = ErrBadJSONAPIStructTag
       /\ result.node.nil
       /\ Sideload => /\ "comments,1" \in DOMAIN Included
                      /\ "comments,2" \notin DOMAIN Included

\* The role "bogus" with a name: the error, after the first relation only.
C12_Witness ==
  /\ Marshalled /\ root.name = "BadModel" /\ Sideload
  /\ root.fields[3].tag = "bogus,name"
  /\ result.err = ErrBadJSONAPIStructTag
  /\ DOMAIN Included = {"comments,1"}

\* C13: Visit of a pointer to a struct ends by returning a node or an error,
\* whatever the fields hold; it never panics.
C13_NoPanic == result.st # "panic"

\* What the per-relation-name capabilities of the marshalled object give for
\* a relation name: nil for an object without the capability.
RelLinksOf(obj, name) ==
  IF RelationshipLinkable(obj) THEN JSONAPIRelationshipLinks(obj, name) ELSE NilLinks
RelMetaOf(obj, name) ==
  IF RelationshipMetable(obj) THEN JSONAPIRelationshipMeta(obj, name) ELSE NilMeta
IsRelation(c) ==
  Tagged(c, annotationRelation) \/ Tagged(c, annotationPolyRelation)
NullToOne(rel) == ~rel.many /\ rel.Data.nil

\* C14 as stated: every relationship written into the node, to-many, non-null
\* to-one and null to-one alike, carries the Links and Meta the object's
\* per-relation-name capabilities return for the relation's name.
C14_RelationshipLinksMeta ==
  Succeeded =>
    \A i \in Fields :
      LET c == CursorNext(root, i)
          name == c.currentTag[2]
      IN (IsRelation(c) /\ HasRel(name))
           => /\ Rels[name].Links = RelLinksOf(root, name)
              /\ Rels[name].Meta = RelMetaOf(root, name)

\* C14, amended: a to-many and a non-null to-one relationship carry the
\* Links and Meta the object's per-relation-name capabilities return for the
\* relation's name; a null to-one relationship carries neither.
C14_RelationshipLinksMetaNonNull ==
  Succeeded =>
    \A i \in Fields :
      LET c == CursorNext(root, i)
          name == c.currentTag[2]
      IN (IsRelation(c) /\ HasRel(name))
           => IF NullToOne(Rels[name])
              THEN Rels[name].Links.nil /\ Rels[name].Meta.nil
              ELSE /\ Rels[name].Links = RelLinksOf(root, name)
                   /\ Rels[name].Meta = RelMetaOf(root, name)

\* A Blog with two posts and no current post: the posts relationship has the
\* links and meta of the Blog, the null current_post relationship has none.
C14_Witness ==
  /\ Succeeded /\ root.name = "Blog"
  /\ HasRel("posts") /\ HasRel("current_post")
  /\ Len(Rels["posts"].Data.items) = 2
  /\ ~Rels["posts"].Links.nil /\ ~Rels["posts"].Meta.nil
  /\ Rels["posts"].Links = JSONAPIRelationshipLinks(root, "posts")
  /\ NullToOne(Rels["current_post"])
  /\ Rels["current_post"].Links.nil
  /\ ~JSONAPIRelationshipLinks(root, "current_post").nil

TimeValue(c) == Tagged(c, annotationAttribute) /\ c.kind = "time"

\* C15: an attribute of time value type holding the zero time is left out of
\* the node's attributes, whatever the modifiers of its tag (none, omitempty,
\* iso8601, rfc3339, and their combinations).
C15_ZeroTimeOmitted ==
  Succeeded =>
    \A i \in Fields :
      LET c == CursorNext(root, i)
      IN (TimeValue(c) /\ IsZero(c.fieldValue)) => ~HasAttr(c.currentTag[2])

\* A TimestampModel whose three time values are zero and whose time pointers
\* are not: only the pointers' attributes are written.
C15_Witness ==
  /\ Succeeded /\ root.name = "TimestampModel"
  /\ \A i \in {2, 4, 6} : IsZero(root.fields[i].v)
  /\ DOMAIN Attrs = {"defaultp", "iso8601p", "rfc3339p"}

\* The attributes that are not times: strings, integers, structs, references,
\* lists and maps.
NonTimeAttribute(c) ==
  /\ Tagged(c, annotationAttribute)
  /\ c.kind \in {"string", "struct", "slice", "map"} \cup SignedKinds \cup UnsignedKinds
     \/ (c.kind = "ptr" /\ c.elem # "time")
HasOmitEmpty(c) ==
  \E j \in 3..Len(c.currentTag) : c.currentTag[j] = annotationOmitEmpty

\* An empty value: the empty string, zero, a zero-valued struct, a nil
\* reference, a nil list or map, a list of length zero.
EmptyValue(c) ==
  CASE c.kind = "string" -> c.fieldValue = ""
    [] c.kind \in SignedKinds \cup UnsignedKinds -> c.fieldValue = 0
    [] c.kind = "struct" -> c.fieldValue = Employee("", "", 0)
    [] c.kind = "ptr" -> c.fieldValue.nil
    [] c.kind = "slice" -> c.fieldValue.nil \/ c.fieldValue.items = <<>>
    [] c.kind = "map" -> c.fieldValue.nil
\* A map of length zero that is not nil is neither called empty nor non-empty.
NonEmptyValue(c) ==
  ~EmptyValue(c) /\ (c.kind = "map" => DOMAIN c.fieldValue.m # {})

\* C16: a non-time attribute tagged omitempty is left out when its value is
\* empty (a zero-valued struct, a nil reference, a nil list, a list of length
\* zero) and written when it is not empty (a populated map); without
\* omitempty the attribute is always written.
C16_OmitEmptyAttribute ==
  Succeeded =>
    \A i \in Fields :
      LET c == CursorNext(root, i)
          name == c.currentTag[2]
      IN NonTimeAttribute(c) =>
           /\ (HasOmitEmpty(c) /\ EmptyValue(c)) => ~HasAttr(name)
           /\ (HasOmitEmpty(c) /\ NonEmptyValue(c)) => HasAttr(name)
           /\ ~HasOmitEmpty(c) => HasAttr(name)

\* C17: a Visit of a nil reference, as for a nil entry of a list of models,
\* returns at once with no node and no error, and leaves the visitor as it
\* was (the Included Set, the mode, no root model), so that the entries
\* visited before and after it are marshalled as they are without it.
C17_NilEntry ==
  [][(Idle /\ Idle' /\ visits' = visits + 1)
       => /\ result'.st = "ok" /\ result'.err = "" /\ result'.node.nil
          /\ DOMAIN Included' = DOMAIN Included
          /\ \A k \in DOMAIN Included : Included'[k] = Included[k]
          /\ Sideload' = Sideload
          /\ rootModel'.nil]_vars

\* A Blog was marshalled in side-load mode and a nil entry visited after
\* it: no node, no error, and the Included Set of the Blog is kept.
C17_Witness ==
  /\ Idle /\ visits = 2 /\ result.st = "ok" /\ result.node.nil
  /\ root.name = "Blog" /\ Sideload
  /\ "posts,1" \in DOMAIN Included

\* A polymorphic to-one field with every slot empty: a nil choice reference,
\* or a choice struct with no populated slot.
EverySlotEmpty(c) ==
  PolyToOne(c) /\ (c.fieldValue.nil \/ Populated(Deref(c.fieldValue)) = {})
\* The relation fields of the model other than field i hold nothing.
NoOtherRelated(i) ==
  \A j \in Fields \ {i} :
    LET d == CursorNext(root, j)
    IN IsRelation(d) =>
         IF d.kind = "slice" THEN d.fieldValue.items = <<>> ELSE d.fieldValue.nil

\* C20: a polymorphic to-one relation without omitempty whose slots are all
\* empty is written as an empty to-one relationship: its key is present with
\* null data, and it adds nothing to the Included Set.
C20_PolyEverySlotEmpty ==
  Succeeded =>
    \A i \in Fields :
      LET c == CursorNext(root, i)
          name == c.currentTag[2]
      IN (EverySlotEmpty(c) /\ ~OmitEmptyRelation(c))
           => /\ HasRel(name) /\ NullToOne(Rels[name])
              /\ NoOtherRelated(i) => DOMAIN Included = {}

Unmarshalled19 ==
  got.op = "UnmarshalPayload" /\ root.name = "WithNullableAttrs"

\* C19: after UnmarshalPayload into a new WithNullableAttrs, a nullable
\* attribute or relationship is unspecified when its key is absent from the
\* resource (also when the resource has no relationships at all), specified
\* and null when the key is there with null, and specified, not null, with
\* Get returning the value and no error, when the key is there with a value
\* (also the value false).
C19_UnmarshalNullable ==
  Unmarshalled19 =>
    /\ got.err = ""
    /\ \A i \in NullableFields :
         LET f == got.v.fields[i]
             name == CursorNext(root, i).currentTag[2]
             doc == got.payload.data
         IN IF f.kind = "NullableAttr"
            THEN IF name \notin DOMAIN doc.Attributes.m THEN Unspecified(f)
                 ELSE IF doc.Attributes.m[name].k = "nil"
                 THEN IsSpecified(f) /\ IsNull(f)
                 ELSE /\ Present(f) /\ GetOf(f).err = NoError
                      /\ GetOf(f).v = IF f.elem = "bool" THEN doc.Attributes.m[name].v
                                      ELSE aTime
            ELSE IF name \notin DOMAIN doc.Relationships.m THEN Unspecified(f)
                 ELSE IF doc.Relationships.m[name].Data.nil
                 THEN IsSpecified(f) /\ IsNull(f)
                 ELSE /\ Present(f) /\ GetOf(f).err = NoError
                      /\ ~GetOf(f).v.nil
                      /\ GetOf(f).v.v.name = "Comment"
                      /\ GetOf(f).v.v.fields[1].v = 5

\* The document had "bool": false and "nullable_comment": {"data": null}:
\* Get on the bool field returns false, the comment is specified and null,
\* and the times are unspecified.
C19_Witness ==
  /\ Unmarshalled19 /\ got.err = ""
  /\ "bool" \in DOMAIN got.payload.data.Attributes.m
  /\ Present(got.v.fields[6]) /\ GetOf(got.v.fields[6]) = GetResult(FALSE, NoError)
  /\ "nullable_comment" \in DOMAIN got.payload.data.Relationships.m
  /\ ExplicitNull(got.v.fields[7])
  /\ \A i \in {3, 4, 5} : Unspecified(got.v.fields[i])

\* The object with the related objects in place of the references to them.
IsRelationField(obj, i) ==
  Tagged(CursorNext(obj, i), annotationRelation) /\ obj.fields[i].kind \in {"ptr", "slice"}
RECURSIVE DeepValue(_)
DeepValue(obj) ==
  LET deep(ptr) == IF ptr.nil THEN NilPtr ELSE PtrVal(DeepValue(Pool[ptr.ref]))
      value(f) ==
        IF f.kind = "ptr" THEN deep(f.v)
        ELSE [nil |-> f.v.nil,
              items |-> [j \in 1..Len(f.v.items) |-> deep(f.v.items[j])]]
  IN [obj EXCEPT !.fields =
        [i \in 1..Len(obj.fields) |->
           IF IsRelationField(obj, i)
           THEN [obj.fields[i] EXCEPT !.v = value(obj.fields[i])]
           ELSE obj.fields[i]]]

\* The same with every nil list of related objects as the empty list.
RECURSIVE NilAsEmpty(_)
NilAsEmpty(obj) ==
  LET deep(ptr) == IF ptr.nil THEN NilPtr ELSE PtrVal(NilAsEmpty(ptr.v))
      value(f) ==
        IF f.kind = "ptr" THEN deep(f.v)
        ELSE [nil |-> FALSE,
              items |-> [j \in 1..Len(f.v.items) |-> deep(f.v.items[j])]]
  IN [obj EXCEPT !.fields =
        [i \in 1..Len(obj.fields) |->
           IF IsRelationField(obj, i)
           THEN [obj.fields[i] EXCEPT !.v = value(obj.fields[i])]
           ELSE obj.fields[i]]]

\* The objects an object refers to, directly or not.
Refs(obj) ==
  UNION {LET f == obj.fields[i]
         IN IF f.kind = "ptr" THEN (IF f.v.nil THEN {} ELSE {f.v.ref})
            ELSE {f.v.items[j].ref : j \in {k \in 1..Len(f.v.items) : ~f.v.items[k].nil}} :
         i \in {k \in 1..Len(obj.fields) : IsRelationField(obj, k)}}
Related(obj) == Refs(obj) \cup UNION {Refs(Pool[a]) : a \in Refs(obj)}
PrimaryOf(obj) ==
  obj.fields[CHOOSE i \in 1..Len(obj.fields) :
               Tagged(CursorNext(obj, i), annotationPrimary)].v
\* Related objects of one type and one id are equal.
OnePerKey(obj) ==
  \A a \in Related(obj), b \in Related(obj) :
    (Pool[a].name = Pool[b].name /\ PrimaryOf(Pool[a]) = PrimaryOf(Pool[b]))
      => DeepValue(Pool[a]) = DeepValue(Pool[b])

NonEmptyKey(obj) ==
  LET c == CursorNext(obj, CHOOSE i \in 1..Len(obj.fields) :
                             Tagged(CursorNext(obj, i), annotationPrimary))
  IN /\ ~PrimaryIsNil(c)
     /\ IF PrimaryKind(c) = "string" THEN PrimaryValue(c) # "" ELSE PrimaryValue(c) # 0

RoundTrip ==
  /\ got.op = "UnmarshalPayload" /\ root.name \in RoundTripModels
  /\ NonEmptyKey(root)

PolyToMany(c) == Tagged(c, annotationPolyRelation) /\ c.kind = "slice"
Unresolved(item) == item.nil \/ Populated(Deref(item)) = {}

\* C21: for a polymorphic to-many relation every element of the list must
\* resolve to a populated slot: with an element that is a nil reference or a
\* choice struct with no populated slot the marshal call fails with
\* ErrUnexpectedNil, and on success the relationship's data has as many
\* entries as the list, in the order of the list.
C21_PolyToManyResolved ==
  Marshalled =>
    \A i \in Fields :
      LET c == CursorNext(root, i)
          name == c.currentTag[2]
          items == c.fieldValue.items
      IN (PolyToMany(c) /\ ~omitsRelation(c))
           => /\ (\E j \in 1..Len(items) : Unresolved(items[j]))
                   => result.st = "err" /\ result.err = ErrUnexpectedNil
              /\ result.st = "ok"
                   => /\ HasRel(name) /\ Rels[name].many
                      /\ Len(Rels[name].Data.items) = Len(items)
                      /\ \A j \in 1..Len(items) :
                           LET primary == CursorNext(FirstPopulated(Deref(items[j])), 1)
                           IN /\ Rels[name].Data.items[j].Type = primary.currentTag[2]
                              /\ Rels[name].Data.items[j].ID = primary.fieldValue

\* C22: a primary field whose tag does not consist of exactly the role and
\* the type name (the role alone, or a further token after the type name)
\* makes Visit fail with ErrBadJSONAPIStructTag.
C22_PrimaryTokenCount ==
  (Marshalled /\ root.name = "BadModel")
    => LET tag == CursorNext(root, 3).currentTag
       IN (HasTag(CursorNext(root, 3)) /\ tag[1] = annotationPrimary /\ Len(tag) # 2)
            => result.st = "err" /\ result.err = ErrBadJSONAPIStructTag

\* C23: a field with the links role, written as `links` alone or with further
\* tokens, is ignored by Visit: the BadModel whose field is tagged so is
\* marshalled without error, to the resource of its other fields (its type
\* and id and its two relations; no attributes, links or meta).
C23_LinksIgnored ==
  (Marshalled /\ root.name = "BadModel" /\ FieldTypeLinks(CursorNext(root, 3)))
    => /\ result.st = "ok"
       /\ result.node.Type = "badmodels" /\ result.node.ID = "1"
       /\ result.node.ClientID = ""
       /\ result.node.Attributes.nil
       /\ DOMAIN Rels = {"before", "after"}
       /\ Rels["before"].Data.ID = "1" /\ Rels["after"].Data.ID = "2"
       /\ result.node.Links.nil /\ result.node.Meta.nil

\* C24: in embed mode no step of a Visit changes the Included Set, and when
\* a relation's references have all been visited the relationship written
\* has, for each of them in order, the very node its nested Visit returned:
\* the full resource, with its own attributes and relationships.
C24_EmbedFull ==
  [][~Sideload
       => /\ Included' = Included
          /\ (~Idle /\ Top.rel.active /\ Len(Top.rel.nodes) = Len(Top.rel.items))
               => LET rel == Top.rel
                      written == stack'[Len(stack')].node.Relationships.m[rel.name]
                      data == IF written.many THEN written.Data.items ELSE <<written.Data>>
                  IN /\ written.many = rel.isSlice
                     /\ Len(data) = Len(rel.nodes)
                     /\ \A i \in 1..Len(rel.nodes) : data[i] = rel.nodes[i]]_vars

\* A Blog marshalled in embed mode with the post p1 (id 1) in its list: the
\* post's data carries its title, its comments relationship with the body of
\* the comment, and its latest comment; nothing is included.
C24_Witness ==
  /\ Succeeded /\ ~Sideload /\ root.name = "Blog"
  /\ HasRel("posts") /\ Len(Rels["posts"].Data.items) >= 1
  /\ LET post == Rels["posts"].Data.items[1]
     IN /\ post.ID = "1" /\ ~post.Attributes.nil
        /\ post.Attributes.m["title"].v = "a"
        /\ ~post.Relationships.nil
        /\ DOMAIN post.Relationships.m = {"comments", "latest_comment"}
        /\ Len(post.Relationships.m["comments"].Data.items) = 1
        /\ post.Relationships.m["comments"].Data.items[1].Attributes.m["body"].v = "c1"
        /\ post.Relationships.m["latest_comment"].Data.ID = "1"
  /\ DOMAIN Included = {}

\* The objects reached from the object at an address through its relation
\* fields, in one step or more; an object on a cycle is reached from itself.
RefsOf(a) == Refs(Deref(PtrTo(a)))
RECURSIVE ReachFrom(_, _)
ReachFrom(S, n) ==
  IF n = 0 THEN S ELSE ReachFrom(S \cup UNION {RefsOf(a) : a \in S}, n - 1)
Reachable(a) == ReachFrom(RefsOf(a), Cardinality(DOMAIN Pool))
Cyclic(a) == \E b \in {a} \cup Reachable(a) : b \in Reachable(b)

C26_RootModel ==
  IF Idle THEN rootModel.nil
  ELSE ~rootModel.nil /\ rootModel = stack[1].next

\* The second top-level Visit on one visitor, three Visits deep (a Blog, its
\* post, the post's comment): rootModel is the Blog, not the comment.
C26_Witness ==
  /\ visits = 2 /\ Len(stack) = 3
  /\ root.name = "Blog"
  /\ rootModel = PtrTo("root")
  /\ stack[3].next # rootModel
  /\ Deref(stack[3].next).name = "Comment"

\* C27: when a relation's references have all been visited, at any depth of
\* nested Visits, the relationship written carries the Links and the Meta
\* that the capabilities of the root model (the argument of the top-level
\* Visit) return for the relation's name, nil when the root model has not
\* the capability: the object that owns the relation field is not asked.
C27_RootCapabilities ==
  [][(~Idle /\ Top.rel.active /\ Len(Top.rel.nodes) = Len(Top.rel.items))
       => LET rel == Top.rel
              written == stack'[Len(stack')].node.Relationships.m[rel.name]
              rootObj == Deref(stack[1].next)
          IN /\ written.Links = RelLinksOf(rootObj, rel.name)
             /\ written.Meta = RelMetaOf(rootObj, rel.name)]_vars

\* A Site, which has no capabilities, with a Blog that has them: the posts
\* relationship of the nested Blog is written without the links and meta
\* the Blog itself returns for "posts".
C27_Witness ==
  /\ Succeeded /\ ~Sideload /\ root.name = "Site"
  /\ HasRel("blog") /\ ~Rels["blog"].Data.nil
  /\ LET blog == Rels["blog"].Data
     IN /\ "posts" \in DOMAIN blog.Relationships.m
        /\ Len(blog.Relationships.m["posts"].Data.items) = 1
        /\ blog.Relationships.m["posts"].Links.nil
        /\ blog.Relationships.m["posts"].Meta.nil
        /\ ~RelLinksOf(Pool["b7"], "posts").nil
        /\ ~RelMetaOf(Pool["b7"], "posts").nil

\* The resources a model refers to through its polymorphic relations: the
\* first populated slot of every choice that has one.
PolyRefs(obj) ==
  UNION {LET f == obj.fields[i]
             choices == IF f.kind = "ptr" THEN (IF f.v.nil THEN {} ELSE {f.v})
                        ELSE {f.v.items[j] : j \in {k \in 1..Len(f.v.items) :
                                                      ~f.v.items[k].nil}}
         IN {selectChoiceTypeStructField(Deref(ch)).v.ref :
               ch \in {x \in choices : Populated(Deref(x)) # {}}} :
         i \in {k \in 1..Len(obj.fields) :
                  Tagged(CursorNext(obj, k), annotationPolyRelation)}}
\* Every resource reached from the model through relation fields.
Reached == Reachable("root") \cup PolyRefs(root)
\* The type and the id a resource is marshalled with.
Identity(obj) ==
  visitFieldTypePrimary(
    NewNode,
    CursorNext(obj, CHOOSE i \in 1..Len(obj.fields) :
                      Tagged(CursorNext(obj, i), annotationPrimary))).node

\* C28: after a successful side-load Visit of an acyclic model, every
\* resource reached through relation fields, at any depth, has an entry in
\* the Included Set under the key of its type and id, and the entry is of
\* that type and id: resources of different (type, id) never share a key,
\* also when an id has the separator in it.
C28_IncludedReached ==
  (Succeeded /\ Sideload /\ ~Cyclic("root"))
    => \A a \in Reached :
         LET id == Identity(Pool[a])
             k == id.Type \o "," \o id.ID
         IN /\ k \in DOMAIN Included
            /\ Included[k].Type = id.Type
            /\ Included[k].ID = id.ID

\* A Blog with the posts p1 (id 1, with the comment of id 1) and p2 (id 2,
\* with the comment of id 2): the posts and, one level down, their comments
\* are all included, the post and the comment of one id under two keys.
C28_Witness ==
  /\ Succeeded /\ Sideload /\ root.name = "Blog"
  /\ Reached = {"p1", "p2", "c1", "c2"}
  /\ DOMAIN Included = {"posts,1", "posts,2", "comments,1", "comments,2"}
  /\ Included["comments,1"].Attributes.m["body"].v = "c1"

\* C29: of two fields of one model with the same resource-level name, the
\* later-declared one that is not omitted gives the entry under that name,
\* and Visit returns no error.  For withDeprecatedRelation: the title is the
\* second title field's unless that is empty (omitempty); the media
\* relationship is the image relation's (null for a nil image) unless that
\* is omitted, and then the polymorphic relation's, if it wrote one.
C29_LaterFieldWins ==
  (Marshalled /\ root.name = "withDeprecatedRelation")
    => LET title == root.fields[2].v
           second == root.fields[3].v
           media == root.fields[4].v
           image == root.fields[5].v
           imageOmitted == OmitEmptyRelation(CursorNext(root, 5)) /\ image.nil
       IN /\ result.st = "ok"
          /\ DOMAIN Attrs = {"title"}
          /\ Attrs["title"].v = (IF second # "" THEN second ELSE title)
          /\ IF ~imageOmitted
             THEN /\ DOMAIN Rels = {"media"}
                  /\ IF image.nil THEN NullToOne(Rels["media"])
                     ELSE /\ ~Rels["media"].many /\ ~Rels["media"].Data.nil
                          /\ Rels["media"].Data.Type = "images"
                          /\ Rels["media"].Data.ID = Identity(Deref(image)).ID
             ELSE IF media.nil THEN DOMAIN Rels = {}
             ELSE /\ DOMAIN Rels = {"media"}
                  /\ ~Rels["media"].many /\ ~Rels["media"].Data.nil
                  /\ Rels["media"].Data.Type = "videos"
                  /\ Rels["media"].Data.ID = "3"

\* Both titles set, a video in the polymorphic relation and a nil image in
\* the relation declared after it: the title is the later one and the media
\* relationship is null, the video's entry overwritten (in side-load mode
\* the video has been included all the same).
C29_Witness ==
  /\ Succeeded /\ Sideload /\ root.name = "withDeprecatedRelation"
  /\ root.fields[2].v = "Hello, World" /\ root.fields[3].v = "Later"
  /\ ~root.fields[4].v.nil /\ root.fields[5].v.nil
  /\ Attrs["title"].v = "Later"
  /\ NullToOne(Rels["media"])
  /\ DOMAIN Included = {"videos,3"}

\* The operations that set the state of a nullable value.
SetOps == {"Set", "SetNull", "SetUnspecified"}

\* The operation o (a value of got) of the type kind, on the value t.
Operation(kind, o, t, elem) ==
  CASE kind = "NullableAttr" ->
         (CASE o.op = "Set" -> NullableAttrSet(t, o.v)
            [] o.op = "SetNull" -> NullableAttrSetNull(t, elem)
            [] OTHER -> NullableAttrSetUnspecified(t))
    [] kind = "NullableRelationship" ->
         (CASE o.op = "Set" -> NullableRelationshipSet(t, o.v)
            [] o.op = "SetNull" -> NullableRelationshipSetNull(t, elem)
            [] OTHER -> NullableRelationshipSetUnspecified(t))
    [] OTHER ->
         (CASE o.op = "Set" -> NullableSet(t, o.v)
            [] o.op = "SetNull" -> NullableSetNull(t, elem)
            [] OTHER -> NullableSetUnspecified(t))

\* The state of a value of the type kind: IsSpecified, IsNull, Get.
StateOf(kind, t, elem) ==
  CASE kind = "NullableAttr" ->
         <<NullableAttrIsSpecified(t), NullableAttrIsNull(t), NullableAttrGet(t, elem)>>
    [] kind = "NullableRelationship" ->
         <<NullableRelationshipIsSpecified(t), NullableRelationshipIsNull(t),
           NullableRelationshipGet(t, elem)>>
    [] OTHER -> <<NullableIsSpecified(t), NullableIsNull(t), NullableGet(t, elem)>>

NullableTypes == {"NullableAttr", "NullableRelationship", "Nullable"}

\* C30: the state of a nullable value after a sequence of Set, SetNull and
\* SetUnspecified depends only on the last of them (it is what that
\* operation makes of the zero value): Present(v) after Set(v), ExplicitNull
\* after SetNull, Unspecified after SetUnspecified; the operation done again
\* changes nothing; and a NullableAttr, a NullableRelationship and a
\* Nullable given the same operations are in the same state.
C30_LastOperation ==
  /\ got.op \in SetOps =>
       LET f == root.fields[got.field]
       IN /\ f.v = Operation(f.kind, got, NilMap, f.elem)
          /\ got.op = "Set" => Present(f) /\ f.v.m[TRUE] = got.v
          /\ got.op = "SetNull" => ExplicitNull(f)
          /\ got.op = "SetUnspecified" => Unspecified(f)
          /\ Operation(f.kind, got, f.v, f.elem) = f.v
          /\ Operation("Nullable", got, legacy[got.field], f.elem)
               = legacy[got.field]
          /\ \A kind \in NullableTypes :
               StateOf(kind, Operation(kind, got, f.v, f.elem), f.elem)
                 = StateOf(f.kind, f.v, f.elem)
  /\ \A i \in NullableFields :
       StateOf("Nullable", legacy[i], root.fields[i].elem)
         = StateOf(root.fields[i].kind, root.fields[i].v, root.fields[i].elem)

\* The bool attribute was Set(true) and then SetNull: ExplicitNull, with
\* nothing left of the value; the Nullable given the same is ExplicitNull.
C30_Witness ==
  /\ root.name = "WithNullableAttrs" /\ ops = 2
  /\ got.op = "SetNull" /\ got.field = 6
  /\ DOMAIN root.fields[6].v.m = {FALSE}
  /\ ExplicitNull(root.fields[6])
  /\ NullableIsNull(legacy[6]) /\ NullableIsSpecified(legacy[6])
  /\ \A i \in NullableFields \ {6} : Unspecified(root.fields[i])
====
